---- MODULE Spec2Model ----
(***************************************************************************)
(* A model of lib/db_utils.go: the mapping of relations, UTXOs and indexes *)
(* onto one ordered byte-string key-value store (badger).                  *)
(*                                                                         *)
(* The store is a function from keys to values; keys and values are byte   *)
(* strings, modelled as sequences of naturals in 0..255.  Every            *)
(* ...WithTxn function of the source is an operator from the transaction's *)
(* view of the store to a record [txn, err] (and a value for getters); the *)
(* wrappers that call handle.Update are actions that commit txn when err   *)
(* is nil and leave the store unchanged otherwise.                         *)
(***************************************************************************)
EXTENDS Integers, Sequences, FiniteSets, TLC

VARIABLES
    db,     \* the committed store: [key -> value]
    last,   \* what the last call did: "put", "delete", "noop" or "failed"
    live,   \* history: the (relation, A, B) pairs put and not deleted since
    open    \* the transactions and queries in flight: [id -> record]

vars == <<db, last, live, open>>

(***************************************************************************)
(* Bounds of the model.                                                    *)
(***************************************************************************)
\* Number of distinct PKIDs / public keys drawn as inputs.
NumPKIDs == 2
\* Number of distinct post hashes / transaction ids drawn as inputs.
NumHashes == 2
\* Largest number of keys the store holds (puts are not taken beyond it).
MaxStoreKeys == 4
\* Largest payload value (balance nanos, diamond level, amount nanos).
MaxPayload == 300
\* Largest message timestamp.
MaxTstamp == 2

\* Width in bytes of a public key / PKID (33 in the program, scaled down).
PubKeyBytesLenCompressed == 3
\* Width in bytes of a BlockHash (32 in the program, scaled down: one byte
\* shorter than a public key, as in the program).
HashSizeBytes == 2

Nil == "nil"
ErrKeyNotFound == "ErrKeyNotFound"
ErrLength == "length error"
ErrDecode == "decode error"

(***************************************************************************)
(* Byte strings.                                                           *)
(***************************************************************************)
\* n bytes of zero followed by the byte b: a fixed-width identifier.
FixedBytes(n, first, b) ==
    [i \in 1..n |-> IF i = n THEN b ELSE IF i = 1 THEN first ELSE 0]

\* A PKID is a [33]byte array; compressed public keys start with 0x02.
PKIDOf(i) == FixedBytes(PubKeyBytesLenCompressed, 2, i)
\* A BlockHash is a [32]byte array.
BlockHashOf(i) == FixedBytes(HashSizeBytes, 0, i)

PKIDs == {PKIDOf(i) : i \in 1..NumPKIDs}
BlockHashes == {BlockHashOf(i) : i \in 1..NumHashes}
\* A public key passed as []byte may have any length: one of 32 bytes.
ShortPubKey == FixedBytes(PubKeyBytesLenCompressed - 1, 2, 1)
PubKeys == PKIDs \cup {ShortPubKey}
\* Payloads and timestamps drawn as inputs: the smallest and the largest.
Payloads == {1, MaxPayload}
Tstamps == {1, MaxTstamp}

IsPrefixOf(p, k) == Len(p) <= Len(k) /\ SubSeq(k, 1, Len(p)) = p

RECURSIVE BytesLess(_, _)
\* Byte-lexicographic order, the order of the store's iterator.
BytesLess(a, b) ==
    IF b = <<>> THEN FALSE
    ELSE IF a = <<>> THEN TRUE
    ELSE IF Head(a) # Head(b) THEN Head(a) < Head(b)
    ELSE BytesLess(Tail(a), Tail(b))

RECURSIVE PutBigEndian(_, _)
\* binary.BigEndian.PutUintN: the n low-order bytes of num, highest first.
PutBigEndian(num, n) ==
    IF n = 0 THEN <<>>
    ELSE PutBigEndian(num \div 256, n - 1) \o <<num % 256>>

_EncodeUint32(num) == PutBigEndian(num, 4)

\* A uint64 of 2^63 or more is held as the integer 2^64 below it, which has
\* the same 64 bits: the floored division and the modulus of PutBigEndian
\* give its bytes, -1 giving the eight bytes 0xFF of 2^64-1.
EncodeUint64(num) == PutBigEndian(num, 8)

\* The order of two uint64: those of 2^63 or more come last.
Uint64Less(a, b) == IF (a < 0) = (b < 0) THEN a < b ELSE b < 0

RECURSIVE BigEndianFrom(_, _)
\* binary.BigEndian.UintN: the number whose big-endian bytes follow acc.
BigEndianFrom(acc, bytes) ==
    IF bytes = <<>> THEN acc
    ELSE BigEndianFrom(acc * 256 + Head(bytes), Tail(bytes))

DecodeBigEndian(bytes) == BigEndianFrom(0, bytes)

DecodeUint32(num) == DecodeBigEndian(SubSeq(num, 1, 4))

\* Eight bytes with the top bit set decode to the integer 2^64 below the
\* uint64 they hold.
DecodeUint64(scoreBytes) ==
    LET bytes == SubSeq(scoreBytes, 1, 8)
    IN  IF Head(bytes) >= 128
        THEN -1 - DecodeBigEndian([i \in 1..8 |-> 255 - bytes[i]])
        ELSE DecodeBigEndian(bytes)

(***************************************************************************)
(* gob: a struct is written as a type byte followed by its fields, each    *)
(* with its length in front; reading fails on any other layout.  The       *)
(* encoding of a struct is never empty.                                    *)
(***************************************************************************)
RECURSIVE GobFields(_)
GobFields(fields) ==
    IF fields = <<>> THEN <<>>
    ELSE <<Len(Head(fields))>> \o Head(fields) \o GobFields(Tail(fields))

GobEncode(typeId, fields) == <<typeId>> \o GobFields(fields)

RECURSIVE GobParse(_)
GobParse(bytes) ==
    IF bytes = <<>> THEN [ok |-> TRUE, fields |-> <<>>]
    ELSE IF Head(bytes) > Len(bytes) - 1 THEN [ok |-> FALSE, fields |-> <<>>]
    ELSE LET rest == GobParse(SubSeq(bytes, Head(bytes) + 2, Len(bytes)))
         IN  [ok |-> rest.ok,
              fields |-> <<SubSeq(bytes, 2, Head(bytes) + 1)>> \o rest.fields]

\* Decode into a struct of type typeId with n fields.
GobDecode(typeId, n, bytes) ==
    IF bytes = <<>> \/ Head(bytes) # typeId
    THEN [ok |-> FALSE, fields |-> <<>>]
    ELSE LET p == GobParse(Tail(bytes))
         IN  IF p.ok /\ Len(p.fields) = n THEN p
             ELSE [ok |-> FALSE, fields |-> <<>>]

(***************************************************************************)
(* The store's transaction primitives (badger.Txn).                        *)
(***************************************************************************)
Has(txn, key) == key \in DOMAIN txn

TxnGet(txn, key) ==
    IF Has(txn, key) THEN [err |-> Nil, val |-> txn[key]]
    ELSE [err |-> ErrKeyNotFound, val |-> <<>>]

TxnSet(txn, key, val) ==
    [k \in DOMAIN txn \cup {key} |-> IF k = key THEN val ELSE txn[k]]

TxnDelete(txn, key) == [k \in DOMAIN txn \ {key} |-> txn[k]]

EmptyStore == [k \in {} |-> <<>>]

\* The result of a function that returns only an error.
Ok(txn) == [txn |-> txn, err |-> Nil]
Fail(txn, err) == [txn |-> txn, err |-> err]

\* handle.Update(fn): commit the transaction iff fn returned nil.
Commit(res) == IF res.err = Nil THEN res.txn ELSE db

\* Keys of txn that carry prefix, in the iterator's ascending order.
KeysWithPrefix(txn, prefix) == {k \in DOMAIN txn : IsPrefixOf(prefix, k)}

RECURSIVE SortedKeys(_)
SortedKeys(keys) ==
    IF keys = {} THEN <<>>
    ELSE LET least == CHOOSE k \in keys : \A o \in keys : o = k \/ BytesLess(k, o)
         IN  <<least>> \o SortedKeys(keys \ {least})

(***************************************************************************)
(* Table registry.                                                         *)
(***************************************************************************)
_PrefixUtxoKeyToUtxoEntry == <<5>>
_PrefixPubKeyUtxoKey == <<7>>
_KeyUtxoNumEntries == <<8>>
_PrefixPublicKeyTimestampToPrivateMessage == <<12>>
_PrefixFollowerPKIDToFollowedPKID == <<28>>
_PrefixFollowedPKIDToFollowerPKID == <<29>>
_PrefixLikerPubKeyToLikedPostHash == <<30>>
_PrefixLikedPostHashToLikerPubKey == <<31>>
_PrefixHODLerPKIDCreatorPKIDToBalanceEntry == <<33>>
_PrefixCreatorPKIDHODLerPKIDToBalanceEntry == <<34>>
_PrefixReclouterPubKeyRecloutedPostHashToRecloutPostHash == <<39>>
_PrefixDiamondReceiverPKIDDiamondSenderPKIDPostHash == <<41>>
_PrefixDiamondSenderPKIDDiamondReciverPKIDPostHash == <<43>>

\* Every table selector the file declares (the var block of prefixes).
AllPrefixes ==
    {<<n>> : n \in (0..5) \cup (7..12) \cup (14..23) \cup (25..44)}

\* A nil pointer returned by a getter.
NilEntry == [isNil |-> TRUE]

(***************************************************************************)
(* Follows: <prefix, follower PKID, followed PKID> -> <>                   *)
(*          <prefix, followed PKID, follower PKID> -> <>                   *)
(***************************************************************************)
_dbKeyForFollowerToFollowedMapping(followerPKID, followedPKID) ==
    _PrefixFollowerPKIDToFollowedPKID \o followerPKID \o followedPKID

_dbKeyForFollowedToFollowerMapping(followedPKID, followerPKID) ==
    _PrefixFollowedPKIDToFollowerPKID \o followedPKID \o followerPKID

\* A plausible bug: the reverse mapping is not written.
DbPutFollowMappingsForwardOnly(txn, followerPKID, followedPKID) ==
    Ok(TxnSet(txn, _dbKeyForFollowerToFollowedMapping(followerPKID, followedPKID), <<>>))

DbPutFollowMappingsWithTxn(txn, followerPKID, followedPKID) ==
    IF Len(followerPKID) # PubKeyBytesLenCompressed THEN Fail(txn, ErrLength)
    ELSE IF Len(followedPKID) # PubKeyBytesLenCompressed THEN Fail(txn, ErrLength)
    ELSE LET t1 == TxnSet(txn, _dbKeyForFollowerToFollowedMapping(
                              followerPKID, followedPKID), <<>>)
             t2 == TxnSet(t1, _dbKeyForFollowedToFollowerMapping(
                              followedPKID, followerPKID), <<>>)
         IN  Ok(t2)

\* Returns []byte{} when the forward key is present and nil otherwise.
DbGetFollowerToFollowedMappingWithTxn(txn, followerPKID, followedPKID) ==
    TxnGet(txn, _dbKeyForFollowerToFollowedMapping(followerPKID, followedPKID)).err = Nil

\* A plausible bug: the not-found error of the lookup is returned.
DbDeleteFollowMappingsNotFoundIsError(txn, followerPKID, followedPKID) ==
    IF ~DbGetFollowerToFollowedMappingWithTxn(txn, followerPKID, followedPKID)
    THEN Fail(txn, ErrKeyNotFound)
    ELSE Ok(TxnDelete(TxnDelete(txn,
                _dbKeyForFollowerToFollowedMapping(followerPKID, followedPKID)),
                _dbKeyForFollowedToFollowerMapping(followedPKID, followerPKID)))

DbDeleteFollowMappingsWithTxn(txn, followerPKID, followedPKID) ==
    IF ~DbGetFollowerToFollowedMappingWithTxn(txn, followerPKID, followedPKID)
    THEN Ok(txn)
    ELSE LET t1 == TxnDelete(txn, _dbKeyForFollowerToFollowedMapping(
                                 followerPKID, followedPKID))
             t2 == TxnDelete(t1, _dbKeyForFollowedToFollowerMapping(
                                 followedPKID, followerPKID))
         IN  Ok(t2)

(***************************************************************************)
(* Likes: <prefix, user pub key, liked post hash> -> <>                    *)
(*        <prefix, liked post hash, user pub key> -> <>                    *)
(***************************************************************************)
_dbKeyForLikerPubKeyToLikedPostHashMapping(userPubKey, likedPostHash) ==
    _PrefixLikerPubKeyToLikedPostHash \o userPubKey \o likedPostHash

_dbKeyForLikedPostHashToLikerPubKeyMapping(likedPostHash, userPubKey) ==
    _PrefixLikedPostHashToLikerPubKey \o likedPostHash \o userPubKey

DbPutLikeMappingsWithTxn(txn, userPubKey, likedPostHash) ==
    IF Len(userPubKey) # PubKeyBytesLenCompressed THEN Fail(txn, ErrLength)
    ELSE LET t1 == TxnSet(txn, _dbKeyForLikerPubKeyToLikedPostHashMapping(
                              userPubKey, likedPostHash), <<>>)
             t2 == TxnSet(t1, _dbKeyForLikedPostHashToLikerPubKeyMapping(
                              likedPostHash, userPubKey), <<>>)
         IN  Ok(t2)

DbGetLikerPubKeyToLikedPostHashMappingWithTxn(txn, userPubKey, likedPostHash) ==
    TxnGet(txn, _dbKeyForLikerPubKeyToLikedPostHashMapping(
                    userPubKey, likedPostHash)).err = Nil

\* A plausible bug: only the forward mapping is deleted.
DbDeleteLikeMappingsForwardOnly(txn, userPubKey, likedPostHash) ==
    Ok(TxnDelete(txn, _dbKeyForLikerPubKeyToLikedPostHashMapping(
                          userPubKey, likedPostHash)))

DbDeleteLikeMappingsWithTxn(txn, userPubKey, likedPostHash) ==
    IF ~DbGetLikerPubKeyToLikedPostHashMappingWithTxn(txn, userPubKey, likedPostHash)
    THEN Ok(txn)
    ELSE LET t1 == TxnDelete(txn, _dbKeyForLikerPubKeyToLikedPostHashMapping(
                                 userPubKey, likedPostHash))
             t2 == TxnDelete(t1, _dbKeyForLikedPostHashToLikerPubKeyMapping(
                                 likedPostHash, userPubKey))
         IN  Ok(t2)

(***************************************************************************)
(* Creator coin balances:                                                  *)
(*   <prefix, HODLer PKID, creator PKID> -> <BalanceEntry>                 *)
(*   <prefix, creator PKID, HODLer PKID> -> <BalanceEntry>                 *)
(***************************************************************************)
BalanceEntryOf(hodlerPKID, creatorPKID, balanceNanos) ==
    [HODLerPKID |-> hodlerPKID, CreatorPKID |-> creatorPKID,
     BalanceNanos |-> balanceNanos]

GobEncodeBalanceEntry(balanceEntry) ==
    GobEncode(1, <<balanceEntry.HODLerPKID, balanceEntry.CreatorPKID,
                   EncodeUint64(balanceEntry.BalanceNanos)>>)

\* gob.NewDecoder(...).Decode(balanceEntryObj): nil on a decode error.
GobDecodeBalanceEntry(valBytes) ==
    LET d == GobDecode(1, 3, valBytes)
    IN  IF ~d.ok THEN NilEntry
        ELSE BalanceEntryOf(d.fields[1], d.fields[2], DecodeUint64(d.fields[3]))

_dbKeyForHODLerPKIDCreatorPKIDToBalanceEntry(hodlerPKID, creatorPKID) ==
    _PrefixHODLerPKIDCreatorPKIDToBalanceEntry \o hodlerPKID \o creatorPKID

_dbKeyForCreatorPKIDHODLerPKIDToBalanceEntry(creatorPKID, hodlerPKID) ==
    _PrefixCreatorPKIDHODLerPKIDToBalanceEntry \o creatorPKID \o hodlerPKID

DBGetCreatorCoinBalanceEntryForHODLerAndCreatorPKIDsWithTxn(txn, hodlerPKID, creatorPKID) ==
    LET item == TxnGet(txn, _dbKeyForHODLerPKIDCreatorPKIDToBalanceEntry(
                                hodlerPKID, creatorPKID))
    IN  IF item.err # Nil THEN NilEntry ELSE GobDecodeBalanceEntry(item.val)

DbGetHolderPKIDCreatorPKIDToBalanceEntryWithTxn(txn, holder, creator) ==
    LET item == TxnGet(txn, _dbKeyForCreatorPKIDHODLerPKIDToBalanceEntry(
                                creator, holder))
    IN  IF item.err # Nil THEN NilEntry ELSE GobDecodeBalanceEntry(item.val)

\* DbGetBalanceEntry opens a read-only transaction on the committed store.
DbGetBalanceEntry(holder, creator) ==
    DbGetHolderPKIDCreatorPKIDToBalanceEntryWithTxn(db, holder, creator)

DBGetCreatorCoinBalanceEntryForHODLerAndCreatorPKIDs(hodlerPKID, creatorPKID) ==
    DBGetCreatorCoinBalanceEntryForHODLerAndCreatorPKIDsWithTxn(db, hodlerPKID, creatorPKID)

DBDeleteCreatorCoinBalanceEntryMappingsWithTxn(txn, hodlerPKID, creatorPKID) ==
    IF DBGetCreatorCoinBalanceEntryForHODLerAndCreatorPKIDsWithTxn(
           txn, hodlerPKID, creatorPKID) = NilEntry
    THEN Ok(txn)
    ELSE LET t1 == TxnDelete(txn, _dbKeyForHODLerPKIDCreatorPKIDToBalanceEntry(
                                 hodlerPKID, creatorPKID))
             t2 == TxnDelete(t1, _dbKeyForCreatorPKIDHODLerPKIDToBalanceEntry(
                                 creatorPKID, hodlerPKID))
         IN  Ok(t2)

\* A plausible bug: the reverse direction keeps a zeroed balance.
DBPutCreatorCoinBalanceEntryStaleReverse(txn, balanceEntry) ==
    LET t1 == TxnSet(txn, _dbKeyForHODLerPKIDCreatorPKIDToBalanceEntry(
                          balanceEntry.HODLerPKID, balanceEntry.CreatorPKID),
                     GobEncodeBalanceEntry(balanceEntry))
        t2 == TxnSet(t1, _dbKeyForCreatorPKIDHODLerPKIDToBalanceEntry(
                          balanceEntry.CreatorPKID, balanceEntry.HODLerPKID),
                     GobEncodeBalanceEntry(
                         [balanceEntry EXCEPT !.BalanceNanos = 0]))
    IN  Ok(t2)

DBPutCreatorCoinBalanceEntryMappingsWithTxn(txn, balanceEntry) ==
    LET balanceEntryDataBuf == GobEncodeBalanceEntry(balanceEntry)
        t1 == TxnSet(txn, _dbKeyForHODLerPKIDCreatorPKIDToBalanceEntry(
                          balanceEntry.HODLerPKID, balanceEntry.CreatorPKID),
                     balanceEntryDataBuf)
        t2 == TxnSet(t1, _dbKeyForCreatorPKIDHODLerPKIDToBalanceEntry(
                          balanceEntry.CreatorPKID, balanceEntry.HODLerPKID),
                     balanceEntryDataBuf)
    IN  Ok(t2)

(***************************************************************************)
(* Diamonds:                                                               *)
(*   <prefix, receiver PKID, sender PKID, posthash> -> <DiamondEntry>      *)
(*   <prefix, sender PKID, receiver PKID, posthash> -> <DiamondEntry>      *)
(***************************************************************************)
DiamondEntryOf(senderPKID, receiverPKID, diamondPostHash, diamondLevel) ==
    [SenderPKID |-> senderPKID, ReceiverPKID |-> receiverPKID,
     DiamondPostHash |-> diamondPostHash, DiamondLevel |-> diamondLevel]

_DbBufForDiamondEntry(diamondEntry) ==
    GobEncode(2, <<diamondEntry.SenderPKID, diamondEntry.ReceiverPKID,
                   diamondEntry.DiamondPostHash,
                   EncodeUint64(diamondEntry.DiamondLevel)>>)

_DbDiamondEntryForDbBuf(buf) ==
    IF Len(buf) = 0 THEN NilEntry
    ELSE LET d == GobDecode(2, 4, buf)
         IN  IF ~d.ok THEN NilEntry
             ELSE DiamondEntryOf(d.fields[1], d.fields[2], d.fields[3],
                                 DecodeUint64(d.fields[4]))

_dbKeyForDiamondReceiverToDiamondSenderMapping(diamondReceiverPKID, diamondSenderPKID, diamondPostHash) ==
    _PrefixDiamondReceiverPKIDDiamondSenderPKIDPostHash
        \o diamondReceiverPKID \o diamondSenderPKID \o diamondPostHash

_dbKeyForDiamondSenderToDiamondRecieverMapping(diamondReceiverPKID, diamondSenderPKID, diamondPostHash) ==
    _PrefixDiamondSenderPKIDDiamondReciverPKIDPostHash
        \o diamondSenderPKID \o diamondReceiverPKID \o diamondPostHash

DbPutDiamondMappingsWithTxn(txn, diamondEntry) ==
    IF Len(diamondEntry.ReceiverPKID) # PubKeyBytesLenCompressed THEN Fail(txn, ErrLength)
    ELSE IF Len(diamondEntry.SenderPKID) # PubKeyBytesLenCompressed THEN Fail(txn, ErrLength)
    ELSE LET diamondEntryBytes == _DbBufForDiamondEntry(diamondEntry)
             t1 == TxnSet(txn, _dbKeyForDiamondReceiverToDiamondSenderMapping(
                               diamondEntry.ReceiverPKID, diamondEntry.SenderPKID,
                               diamondEntry.DiamondPostHash), diamondEntryBytes)
             t2 == TxnSet(t1, _dbKeyForDiamondSenderToDiamondRecieverMapping(
                               diamondEntry.ReceiverPKID, diamondEntry.SenderPKID,
                               diamondEntry.DiamondPostHash), diamondEntryBytes)
         IN  Ok(t2)

DbGetDiamondMappingsWithTxn(txn, diamondReceiverPKID, diamondSenderPKID, diamondPostHash) ==
    LET item == TxnGet(txn, _dbKeyForDiamondReceiverToDiamondSenderMapping(
                                diamondReceiverPKID, diamondSenderPKID, diamondPostHash))
    IN  IF item.err # Nil THEN NilEntry ELSE _DbDiamondEntryForDbBuf(item.val)

\* A plausible bug: the delete fails when there is no mapping to delete.
DbDeleteDiamondMappingsStrict(txn, diamondReceiverPKID, diamondSenderPKID, diamondPostHash) ==
    IF DbGetDiamondMappingsWithTxn(
           txn, diamondReceiverPKID, diamondSenderPKID, diamondPostHash) = NilEntry
    THEN Fail(txn, ErrKeyNotFound)
    ELSE Ok(TxnDelete(TxnDelete(txn,
                _dbKeyForDiamondReceiverToDiamondSenderMapping(
                    diamondReceiverPKID, diamondSenderPKID, diamondPostHash)),
                _dbKeyForDiamondSenderToDiamondRecieverMapping(
                    diamondReceiverPKID, diamondSenderPKID, diamondPostHash)))

\* A plausible bug: only the receiver-to-sender index mapping is deleted.
DbDeleteDiamondMappingsOneIndex(txn, diamondReceiverPKID, diamondSenderPKID, diamondPostHash) ==
    IF DbGetDiamondMappingsWithTxn(
           txn, diamondReceiverPKID, diamondSenderPKID, diamondPostHash) = NilEntry
    THEN Ok(txn)
    ELSE Ok(TxnDelete(txn, _dbKeyForDiamondReceiverToDiamondSenderMapping(
                               diamondReceiverPKID, diamondSenderPKID, diamondPostHash)))

DbDeleteDiamondMappingsWithTxn(txn, diamondReceiverPKID, diamondSenderPKID, diamondPostHash) ==
    IF DbGetDiamondMappingsWithTxn(
           txn, diamondReceiverPKID, diamondSenderPKID, diamondPostHash) = NilEntry
    THEN Ok(txn)
    ELSE LET t1 == TxnDelete(txn, _dbKeyForDiamondReceiverToDiamondSenderMapping(
                                 diamondReceiverPKID, diamondSenderPKID, diamondPostHash))
             t2 == TxnDelete(t1, _dbKeyForDiamondSenderToDiamondRecieverMapping(
                                 diamondReceiverPKID, diamondSenderPKID, diamondPostHash))
         IN  Ok(t2)

(***************************************************************************)
(* Private messages:                                                       *)
(*   <prefix, public key, tstamp uint64 big-endian> -> <MessageEntry>      *)
(* one entry under the sender's key and one under the recipient's.         *)
(***************************************************************************)
MessageEntryOf(senderPublicKey, recipientPublicKey, encryptedText, tstampNanos) ==
    [SenderPublicKey |-> senderPublicKey, RecipientPublicKey |-> recipientPublicKey,
     EncryptedText |-> encryptedText, TstampNanos |-> tstampNanos]

GobEncodeMessageEntry(messageData) ==
    GobEncode(3, <<messageData.SenderPublicKey, messageData.RecipientPublicKey,
                   messageData.EncryptedText, EncodeUint64(messageData.TstampNanos)>>)

GobDecodeMessageEntry(valBytes) ==
    LET d == GobDecode(3, 4, valBytes)
    IN  IF ~d.ok THEN NilEntry
        ELSE MessageEntryOf(d.fields[1], d.fields[2], d.fields[3],
                            DecodeUint64(d.fields[4]))

_dbKeyForMessageEntry(publicKey, tstampNanos) ==
    _PrefixPublicKeyTimestampToPrivateMessage \o publicKey \o EncodeUint64(tstampNanos)

DbPutMessageEntryWithTxn(txn, messageEntry) ==
    IF Len(messageEntry.SenderPublicKey) # PubKeyBytesLenCompressed
    THEN Fail(txn, ErrLength)
    ELSE IF Len(messageEntry.RecipientPublicKey) # PubKeyBytesLenCompressed
    THEN Fail(txn, ErrLength)
    ELSE LET messageDataBuf == GobEncodeMessageEntry(messageEntry)
             t1 == TxnSet(txn, _dbKeyForMessageEntry(
                               messageEntry.SenderPublicKey, messageEntry.TstampNanos),
                          messageDataBuf)
             t2 == TxnSet(t1, _dbKeyForMessageEntry(
                               messageEntry.RecipientPublicKey, messageEntry.TstampNanos),
                          messageDataBuf)
         IN  Ok(t2)

DbGetMessageEntryWithTxn(txn, publicKey, tstampNanos) ==
    LET item == TxnGet(txn, _dbKeyForMessageEntry(publicKey, tstampNanos))
    IN  IF item.err # Nil THEN NilEntry ELSE GobDecodeMessageEntry(item.val)

DbDeleteMessageEntryMappingsWithTxn(txn, publicKey, tstampNanos) ==
    LET existingMessage == DbGetMessageEntryWithTxn(txn, publicKey, tstampNanos)
    IN  IF existingMessage = NilEntry THEN Ok(txn)
        ELSE LET t1 == TxnDelete(txn, _dbKeyForMessageEntry(
                                     existingMessage.SenderPublicKey, tstampNanos))
                 t2 == TxnDelete(t1, _dbKeyForMessageEntry(
                                     existingMessage.RecipientPublicKey, tstampNanos))
             IN  Ok(t2)

(***************************************************************************)
(* Reclouts:                                                               *)
(*   <prefix, user pub key, reclouted post hash> -> <RecloutEntry>         *)
(***************************************************************************)
RecloutEntryOf(reclouterPubKey, recloutedPostHash, recloutPostHash) ==
    [ReclouterPubKey |-> reclouterPubKey, RecloutedPostHash |-> recloutedPostHash,
     RecloutPostHash |-> recloutPostHash]

GobEncodeRecloutEntry(recloutEntry) ==
    GobEncode(4, <<recloutEntry.ReclouterPubKey, recloutEntry.RecloutedPostHash,
                   recloutEntry.RecloutPostHash>>)

GobDecodeRecloutEntry(valBytes) ==
    LET d == GobDecode(4, 3, valBytes)
    IN  IF ~d.ok THEN NilEntry
        ELSE RecloutEntryOf(d.fields[1], d.fields[2], d.fields[3])

_dbKeyForReclouterPubKeyRecloutedPostHashToRecloutPostHash(userPubKey, recloutedPostHash) ==
    _PrefixReclouterPubKeyRecloutedPostHashToRecloutPostHash
        \o userPubKey \o recloutedPostHash

DbPutRecloutMappingsWithTxn(txn, userPubKey, recloutedPostHash, recloutEntry) ==
    IF Len(userPubKey) # PubKeyBytesLenCompressed THEN Fail(txn, ErrLength)
    ELSE Ok(TxnSet(txn, _dbKeyForReclouterPubKeyRecloutedPostHashToRecloutPostHash(
                            userPubKey, recloutedPostHash),
                   GobEncodeRecloutEntry(recloutEntry)))

DbGetReclouterPubKeyRecloutedPostHashToRecloutEntryWithTxn(txn, userPubKey, recloutedPostHash) ==
    LET item == TxnGet(txn, _dbKeyForReclouterPubKeyRecloutedPostHashToRecloutPostHash(
                                userPubKey, recloutedPostHash))
    IN  IF item.err # Nil THEN NilEntry ELSE GobDecodeRecloutEntry(item.val)

DbDeleteRecloutMappingsWithTxn(txn, userPubKey, recloutedPostHash) ==
    IF DbGetReclouterPubKeyRecloutedPostHashToRecloutEntryWithTxn(
           txn, userPubKey, recloutedPostHash) = NilEntry
    THEN Ok(txn)
    ELSE Ok(TxnDelete(txn, _dbKeyForReclouterPubKeyRecloutedPostHashToRecloutPostHash(
                               userPubKey, recloutedPostHash)))

(***************************************************************************)
(* The UTXO set:                                                           *)
(*   <prefix, txid, output index> -> <UtxoEntry>                           *)
(*   <prefix, owner pub key, txid, output index> -> <>                     *)
(*   <key> -> <number of entries, uint64>                                  *)
(***************************************************************************)
UtxoKeyOf(txID, index) == [TxID |-> txID, Index |-> index]

\* A UtxoEntry as its callers hand it over: no back-reference to its key.
UtxoEntryOf(publicKey, amountNanos) ==
    [AmountNanos |-> amountNanos, PublicKey |-> publicKey, UtxoKey |-> NilEntry]

GetUtxoNumEntriesWithTxn(txn) ==
    LET indexItem == TxnGet(txn, _KeyUtxoNumEntries)
    IN  IF indexItem.err # Nil THEN 0 ELSE DecodeUint64(indexItem.val)

GetUtxoNumEntries == GetUtxoNumEntriesWithTxn(db)

_SerializeUtxoKey(utxoKey) == utxoKey.TxID \o PutBigEndian(utxoKey.Index, 4)

_DbKeyForUtxoKey(utxoKey) == _PrefixUtxoKeyToUtxoEntry \o _SerializeUtxoKey(utxoKey)

_UtxoKeyFromDbKey(utxoDbKey) ==
    UtxoKeyOf(SubSeq(utxoDbKey, 1, HashSizeBytes),
              DecodeBigEndian(SubSeq(utxoDbKey, HashSizeBytes + 1, HashSizeBytes + 4)))

_DbBufForUtxoEntry(utxoEntry) ==
    GobEncode(5, <<utxoEntry.PublicKey, EncodeUint64(utxoEntry.AmountNanos)>>)

GobDecodeUtxoEntry(valBytes) ==
    LET d == GobDecode(5, 2, valBytes)
    IN  IF ~d.ok THEN NilEntry
        ELSE UtxoEntryOf(d.fields[1], DecodeUint64(d.fields[2]))

PutUtxoNumEntriesWithTxn(txn, newNumEntries) ==
    Ok(TxnSet(txn, _KeyUtxoNumEntries, EncodeUint64(newNumEntries)))

PutUtxoEntryForUtxoKeyWithTxn(txn, utxoKey, utxoEntry) ==
    Ok(TxnSet(txn, _DbKeyForUtxoKey(utxoKey), _DbBufForUtxoEntry(utxoEntry)))

DbGetUtxoEntryForUtxoKeyWithTxn(txn, utxoKey) ==
    LET item == TxnGet(txn, _DbKeyForUtxoKey(utxoKey))
    IN  IF item.err # Nil THEN NilEntry ELSE GobDecodeUtxoEntry(item.val)

DeleteUtxoEntryForKeyWithTxn(txn, utxoKey) ==
    Ok(TxnDelete(txn, _DbKeyForUtxoKey(utxoKey)))

DeletePubKeyUtxoKeyMappingWithTxn(txn, publicKey, utxoKey) ==
    IF Len(publicKey) # PubKeyBytesLenCompressed THEN Fail(txn, ErrLength)
    ELSE Ok(TxnDelete(txn, _PrefixPubKeyUtxoKey \o publicKey
                               \o _SerializeUtxoKey(utxoKey)))

\* The owner index written under the key of another owner.
PutPubKeyUtxoKeyUnderFirstOwner(txn, publicKey, utxoKey) ==
    IF Len(publicKey) # PubKeyBytesLenCompressed THEN Fail(txn, ErrLength)
    ELSE Ok(TxnSet(txn, _PrefixPubKeyUtxoKey \o PKIDOf(1)
                            \o _SerializeUtxoKey(utxoKey), <<>>))

PutPubKeyUtxoKeyWithTxn(txn, publicKey, utxoKey) ==
    IF Len(publicKey) # PubKeyBytesLenCompressed THEN Fail(txn, ErrLength)
    ELSE Ok(TxnSet(txn, _PrefixPubKeyUtxoKey \o publicKey
                            \o _SerializeUtxoKey(utxoKey), <<>>))

ErrKeySize == "key size error"
ErrEntryNotFound == "UtxoEntry was not found"

\* Decodes as a list, the error beside it; the scan runs in a read-only
\* transaction on txn.
DbGetUtxosForPubKey(publicKey, txn) ==
    IF Len(publicKey) # PubKeyBytesLenCompressed
    THEN [entries |-> <<>>, err |-> ErrLength]
    ELSE
    LET prefix == _PrefixPubKeyUtxoKey \o publicKey
        found == SortedKeys(KeysWithPrefix(txn, prefix))
        utxoKeyBytes(i) == SubSeq(found[i], Len(prefix) + 1, Len(found[i]))
    IN  IF \E i \in 1..Len(found) : Len(utxoKeyBytes(i)) # HashSizeBytes + 4
        THEN [entries |-> <<>>, err |-> ErrKeySize]
        ELSE
        LET utxoKeysFound == [i \in 1..Len(found) |-> _UtxoKeyFromDbKey(utxoKeyBytes(i))]
            utxoEntry(i) == DbGetUtxoEntryForUtxoKeyWithTxn(txn, utxoKeysFound[i])
        IN  IF \E i \in 1..Len(found) : utxoEntry(i) = NilEntry
            THEN [entries |-> <<>>, err |-> ErrEntryNotFound]
            ELSE [entries |-> [i \in 1..Len(found) |->
                                  [utxoEntry(i) EXCEPT !.UtxoKey = utxoKeysFound[i]]],
                  err |-> Nil]

DeleteUnmodifiedMappingsForUtxoWithTxn(txn, utxoKey) ==
    LET utxoEntry == DbGetUtxoEntryForUtxoKeyWithTxn(txn, utxoKey)
    IN  IF utxoEntry = NilEntry THEN Ok(txn)
        ELSE LET r1 == DeleteUtxoEntryForKeyWithTxn(txn, utxoKey)
             IN  IF r1.err # Nil THEN r1
                 ELSE DeletePubKeyUtxoKeyMappingWithTxn(
                          r1.txn, utxoEntry.PublicKey, utxoKey)

PutMappingsForUtxoWithTxn(txn, utxoKey, utxoEntry) ==
    LET r1 == PutUtxoEntryForUtxoKeyWithTxn(txn, utxoKey, utxoEntry)
    IN  IF r1.err # Nil THEN Ok(r1.txn)
        ELSE PutPubKeyUtxoKeyWithTxn(r1.txn, utxoEntry.PublicKey, utxoKey)

(***************************************************************************)
(* The operations as transactions on the committed store.  Each wrapper    *)
(* runs its ...WithTxn function inside handle.Update.                      *)
(***************************************************************************)
Init ==
    /\ db = EmptyStore
    /\ live = {}
    /\ last = "none"
    /\ open = <<>>

WithinStoreBound(res) == Cardinality(DOMAIN res.txn) <= MaxStoreKeys

\* What a call did: it failed, it put, it deleted, or it was a delete that
\* found nothing to delete.
OpKind(res, kind) ==
    IF res.err # Nil THEN "failed"
    ELSE IF kind = "delete" /\ res.txn = db THEN "noop"
    ELSE kind

\* The history of a put / delete that returned res.
LivePut(res, rel, pair) ==
    IF res.err = Nil THEN live \cup {<<rel>> \o pair} ELSE live

LiveDelete(res, rel, pair) ==
    IF res.err = Nil THEN live \ {<<rel>> \o pair} ELSE live

DbPutFollowMappings ==
    \E followerPKID \in PKIDs, followedPKID \in PKIDs :
        LET res == DbPutFollowMappingsWithTxn(db, followerPKID, followedPKID)
        IN  /\ WithinStoreBound(res)
            /\ db' = Commit(res)
            /\ last' = OpKind(res, "put")
            /\ UNCHANGED open
            /\ live' = LivePut(res, "follow", <<followerPKID, followedPKID>>)

DbDeleteFollowMappings ==
    \E followerPKID \in PKIDs, followedPKID \in PKIDs :
        LET res == DbDeleteFollowMappingsWithTxn(db, followerPKID, followedPKID)
        IN  /\ db' = Commit(res)
            /\ last' = OpKind(res, "delete")
            /\ UNCHANGED open
            /\ live' = LiveDelete(res, "follow", <<followerPKID, followedPKID>>)

DbPutLikeMappings ==
    \E userPubKey \in PubKeys, likedPostHash \in BlockHashes :
        LET res == DbPutLikeMappingsWithTxn(db, userPubKey, likedPostHash)
        IN  /\ WithinStoreBound(res)
            /\ db' = Commit(res)
            /\ last' = OpKind(res, "put")
            /\ UNCHANGED open
            /\ live' = LivePut(res, "like", <<userPubKey, likedPostHash>>)

DbDeleteLikeMappings ==
    \E userPubKey \in PubKeys, likedPostHash \in BlockHashes :
        LET res == DbDeleteLikeMappingsWithTxn(db, userPubKey, likedPostHash)
        IN  /\ db' = Commit(res)
            /\ last' = OpKind(res, "delete")
            /\ UNCHANGED open
            /\ live' = LiveDelete(res, "like", <<userPubKey, likedPostHash>>)

DBPutCreatorCoinBalanceEntryMappings ==
    \E hodlerPKID \in PKIDs, creatorPKID \in PKIDs, balanceNanos \in Payloads :
        LET res == DBPutCreatorCoinBalanceEntryMappingsWithTxn(
                       db, BalanceEntryOf(hodlerPKID, creatorPKID, balanceNanos))
        IN  /\ WithinStoreBound(res)
            /\ db' = Commit(res)
            /\ last' = OpKind(res, "put")
            /\ UNCHANGED open
            /\ live' = LivePut(res, "balance", <<hodlerPKID, creatorPKID>>)

DBDeleteCreatorCoinBalanceEntryMappings ==
    \E hodlerPKID \in PKIDs, creatorPKID \in PKIDs :
        LET res == DBDeleteCreatorCoinBalanceEntryMappingsWithTxn(
                       db, hodlerPKID, creatorPKID)
        IN  /\ db' = Commit(res)
            /\ last' = OpKind(res, "delete")
            /\ UNCHANGED open
            /\ live' = LiveDelete(res, "balance", <<hodlerPKID, creatorPKID>>)

DbPutDiamondMappings ==
    \E senderPKID \in PKIDs, receiverPKID \in PKIDs,
       diamondPostHash \in BlockHashes, diamondLevel \in Payloads :
        LET res == DbPutDiamondMappingsWithTxn(
                       db, DiamondEntryOf(senderPKID, receiverPKID,
                                          diamondPostHash, diamondLevel))
        IN  /\ WithinStoreBound(res)
            /\ db' = Commit(res)
            /\ last' = OpKind(res, "put")
            /\ UNCHANGED open
            /\ live' = LivePut(res, "diamond",
                               <<receiverPKID, senderPKID, diamondPostHash>>)

DbDeleteDiamondMappings ==
    \E diamondReceiverPKID \in PKIDs, diamondGiverPKID \in PKIDs,
       diamondPostHash \in BlockHashes :
        LET res == DbDeleteDiamondMappingsWithTxn(
                       db, diamondReceiverPKID, diamondGiverPKID, diamondPostHash)
        IN  /\ db' = Commit(res)
            /\ last' = OpKind(res, "delete")
            /\ UNCHANGED open
            /\ live' = LiveDelete(res, "diamond",
                           <<diamondReceiverPKID, diamondGiverPKID, diamondPostHash>>)

\* The parties of the messages: two well-formed public keys and a malformed one.
MessagePubKeys == {PKIDOf(1), PKIDOf(NumPKIDs), ShortPubKey}

\* Messages are not tracked in live: a put may overwrite another message.
DbPutMessageEntry ==
    \E senderPublicKey \in MessagePubKeys, recipientPublicKey \in MessagePubKeys,
       tstampNanos \in Tstamps :
        LET res == DbPutMessageEntryWithTxn(
                       db, MessageEntryOf(senderPublicKey, recipientPublicKey,
                                          <<1>>, tstampNanos))
        IN  /\ WithinStoreBound(res)
            /\ db' = Commit(res)
            /\ last' = OpKind(res, "put")
            /\ UNCHANGED <<live, open>>

DbDeleteMessageEntryMappings ==
    \E publicKey \in MessagePubKeys, tstampNanos \in Tstamps :
        LET res == DbDeleteMessageEntryMappingsWithTxn(db, publicKey, tstampNanos)
        IN  /\ db' = Commit(res)
            /\ last' = OpKind(res, "delete")
            /\ UNCHANGED <<live, open>>

NextPaired ==
    \/ DbPutFollowMappings
    \/ DbDeleteFollowMappings
    \/ DbPutLikeMappings
    \/ DbDeleteLikeMappings
    \/ DBPutCreatorCoinBalanceEntryMappings
    \/ DBDeleteCreatorCoinBalanceEntryMappings
    \/ DbPutDiamondMappings
    \/ DbDeleteDiamondMappings

\* Put and delete transactions on the follow, like, balance and diamond
\* relations, interleaved in any order.
SpecPaired == Init /\ [][NextPaired]_vars

NextMessage ==
    \/ DbPutMessageEntry
    \/ DbDeleteMessageEntryMappings

\* Put and delete transactions on private messages.
SpecMessage == Init /\ [][NextMessage]_vars

NoMessageKeys == KeysWithPrefix(db, _PrefixPublicKeyTimestampToPrivateMessage) = {}
OnlyMessageKeys ==
    KeysWithPrefix(db, _PrefixPublicKeyTimestampToPrivateMessage) = DOMAIN db

\* All five relations, one family of tables in use at a time: a message is
\* put while the store holds only messages, an entry of another relation
\* while it holds no message.
NextDelete ==
    \/ NoMessageKeys /\ DbPutFollowMappings
    \/ DbDeleteFollowMappings
    \/ NoMessageKeys /\ DbPutLikeMappings
    \/ DbDeleteLikeMappings
    \/ NoMessageKeys /\ DBPutCreatorCoinBalanceEntryMappings
    \/ DBDeleteCreatorCoinBalanceEntryMappings
    \/ NoMessageKeys /\ DbPutDiamondMappings
    \/ DbDeleteDiamondMappings
    \/ OnlyMessageKeys /\ DbPutMessageEntry
    \/ DbDeleteMessageEntryMappings

SpecDelete == Init /\ [][NextDelete]_vars

DbPutRecloutMappings ==
    \E userPubKey \in PubKeys, recloutedPostHash \in BlockHashes,
       recloutPostHash \in BlockHashes :
        LET res == DbPutRecloutMappingsWithTxn(
                       db, userPubKey, recloutedPostHash,
                       RecloutEntryOf(userPubKey, recloutedPostHash, recloutPostHash))
        IN  /\ WithinStoreBound(res)
            /\ db' = Commit(res)
            /\ last' = OpKind(res, "put")
            /\ UNCHANGED open
            /\ live' = LivePut(res, "reclout", <<userPubKey, recloutedPostHash>>)

DbDeleteRecloutMappings ==
    \E userPubKey \in PubKeys, recloutedPostHash \in BlockHashes :
        LET res == DbDeleteRecloutMappingsWithTxn(db, userPubKey, recloutedPostHash)
        IN  /\ db' = Commit(res)
            /\ last' = OpKind(res, "delete")
            /\ UNCHANGED open
            /\ live' = LiveDelete(res, "reclout", <<userPubKey, recloutedPostHash>>)

NextReclout ==
    \/ DbPutRecloutMappings
    \/ DbDeleteRecloutMappings

\* Put and delete transactions on reclouts.
SpecReclout == Init /\ [][NextReclout]_vars

MaxUtxoIndex == 1
UtxoKeys == {UtxoKeyOf(txID, index) : txID \in BlockHashes, index \in 0..MaxUtxoIndex}

\* The history of the UTXO set: the entry last put under each key.
LivePutUtxo(res, utxoKey, utxoEntry) ==
    IF res.err = Nil
    THEN {l \in live : l[2] # utxoKey} \cup {<<"utxo", utxoKey, utxoEntry>>}
    ELSE live

LiveDeleteUtxo(res, utxoKey) ==
    IF res.err = Nil THEN {l \in live : l[2] # utxoKey} ELSE live

\* addUtxo: the caller's transaction commits iff the function returned nil.
PutMappingsForUtxo ==
    \E utxoKey \in UtxoKeys, publicKey \in PubKeys, amountNanos \in Payloads :
        LET res == PutMappingsForUtxoWithTxn(
                       db, utxoKey, UtxoEntryOf(publicKey, amountNanos))
        IN  /\ WithinStoreBound(res)
            /\ db' = Commit(res)
            /\ last' = OpKind(res, "put")
            /\ UNCHANGED open
            /\ live' = LivePutUtxo(res, utxoKey, UtxoEntryOf(publicKey, amountNanos))

\* addUtxo of a key that is not live.
PutMappingsForNewUtxo ==
    \E utxoKey \in UtxoKeys, publicKey \in PubKeys, amountNanos \in Payloads :
        LET res == PutMappingsForUtxoWithTxn(
                       db, utxoKey, UtxoEntryOf(publicKey, amountNanos))
        IN  /\ DbGetUtxoEntryForUtxoKeyWithTxn(db, utxoKey) = NilEntry
            /\ WithinStoreBound(res)
            /\ db' = Commit(res)
            /\ last' = OpKind(res, "put")
            /\ UNCHANGED open
            /\ live' = LivePutUtxo(res, utxoKey, UtxoEntryOf(publicKey, amountNanos))

\* removeUtxo.
DeleteUnmodifiedMappingsForUtxo ==
    \E utxoKey \in UtxoKeys :
        LET res == DeleteUnmodifiedMappingsForUtxoWithTxn(db, utxoKey)
        IN  /\ db' = Commit(res)
            /\ last' = OpKind(res, "delete")
            /\ UNCHANGED open
            /\ live' = LiveDeleteUtxo(res, utxoKey)

NextUtxo ==
    \/ PutMappingsForUtxo
    \/ DeleteUnmodifiedMappingsForUtxo

\* Any sequence of UTXO adds and removes.
SpecUtxo == Init /\ [][NextUtxo]_vars

NextUtxoFresh ==
    \/ PutMappingsForNewUtxo
    \/ DeleteUnmodifiedMappingsForUtxo

\* UTXO adds and removes where a key is added only while it is not live.
SpecUtxoFresh == Init /\ [][NextUtxoFresh]_vars

(***************************************************************************)
(* Properties of the paired relations.                                     *)
(***************************************************************************)
\* The key of the other direction: the first two fields of the key, w1 and
\* w2 bytes wide, swapped behind the other prefix; what follows them kept.
Mirror(prefix, key, w1, w2) ==
    LET body == Tail(key)
    IN  prefix \o SubSeq(body, w1 + 1, w1 + w2) \o SubSeq(body, 1, w1)
               \o SubSeq(body, w1 + w2 + 1, Len(body))

\* <<forward prefix, reverse prefix, width of A, width of B>>
PairedTables ==
    { <<_PrefixFollowerPKIDToFollowedPKID, _PrefixFollowedPKIDToFollowerPKID,
        PubKeyBytesLenCompressed, PubKeyBytesLenCompressed>>,
      <<_PrefixLikerPubKeyToLikedPostHash, _PrefixLikedPostHashToLikerPubKey,
        PubKeyBytesLenCompressed, HashSizeBytes>>,
      <<_PrefixHODLerPKIDCreatorPKIDToBalanceEntry,
        _PrefixCreatorPKIDHODLerPKIDToBalanceEntry,
        PubKeyBytesLenCompressed, PubKeyBytesLenCompressed>>,
      <<_PrefixDiamondReceiverPKIDDiamondSenderPKIDPostHash,
        _PrefixDiamondSenderPKIDDiamondReciverPKIDPostHash,
        PubKeyBytesLenCompressed, PubKeyBytesLenCompressed>> }

After(store, res) == IF res.err = Nil THEN res.txn ELSE store

\* Calling a delete a second time returns nil and changes nothing more.
\* first is the result of the call on the committed store, second the result
\* of the same call on the store the first one left.
SecondIsNoop(first, second) ==
    /\ second.err = Nil
    /\ After(After(db, first), second) = After(db, first)

\* C3: for follow, like, balance, diamond and message, in every store state,
\* delete(A,B) called twice leaves the store that one call leaves, and the
\* second call returns no error.
C3_DeleteIdempotent ==
    /\ \A a \in PKIDs, b \in PKIDs :
        LET first == DbDeleteFollowMappingsWithTxn(db, a, b)
        IN  SecondIsNoop(first,
                DbDeleteFollowMappingsWithTxn(After(db, first), a, b))
    /\ \A a \in PubKeys, b \in BlockHashes :
        LET first == DbDeleteLikeMappingsWithTxn(db, a, b)
        IN  SecondIsNoop(first,
                DbDeleteLikeMappingsWithTxn(After(db, first), a, b))
    /\ \A a \in PKIDs, b \in PKIDs :
        LET first == DBDeleteCreatorCoinBalanceEntryMappingsWithTxn(db, a, b)
        IN  SecondIsNoop(first,
                DBDeleteCreatorCoinBalanceEntryMappingsWithTxn(After(db, first), a, b))
    /\ \A a \in PKIDs, b \in PKIDs, post \in BlockHashes :
        LET first == DbDeleteDiamondMappingsWithTxn(db, a, b, post)
        IN  SecondIsNoop(first,
                DbDeleteDiamondMappingsWithTxn(After(db, first), a, b, post))
    /\ \A a \in MessagePubKeys, t \in Tstamps :
        LET first == DbDeleteMessageEntryMappingsWithTxn(db, a, t)
        IN  SecondIsNoop(first,
                DbDeleteMessageEntryMappingsWithTxn(After(db, first), a, t))

\* A delete has just removed a message and the store holds another, whose
\* delete changes the store.
C3_Witness ==
    /\ last = "delete"
    /\ \E a \in MessagePubKeys, t \in Tstamps :
        DbDeleteMessageEntryMappingsWithTxn(db, a, t).txn # db

\* C4: when the forward entry of (A,B) is absent, delete(A,B) returns nil
\* and hands back the store with every key as it was.
C4_DeleteOfAbsentIsNoop ==
    /\ \A a \in PKIDs, b \in PKIDs :
        ~Has(db, _dbKeyForFollowerToFollowedMapping(a, b))
            => DbDeleteFollowMappingsWithTxn(db, a, b) = Ok(db)
    /\ \A a \in PubKeys, b \in BlockHashes :
        ~Has(db, _dbKeyForLikerPubKeyToLikedPostHashMapping(a, b))
            => DbDeleteLikeMappingsWithTxn(db, a, b) = Ok(db)
    /\ \A a \in PKIDs, b \in PKIDs :
        ~Has(db, _dbKeyForHODLerPKIDCreatorPKIDToBalanceEntry(a, b))
            => DBDeleteCreatorCoinBalanceEntryMappingsWithTxn(db, a, b) = Ok(db)
    /\ \A a \in PKIDs, b \in PKIDs, post \in BlockHashes :
        ~Has(db, _dbKeyForDiamondReceiverToDiamondSenderMapping(a, b, post))
            => DbDeleteDiamondMappingsWithTxn(db, a, b, post) = Ok(db)
    /\ \A a \in MessagePubKeys, t \in Tstamps :
        ~Has(db, _dbKeyForMessageEntry(a, t))
            => DbDeleteMessageEntryMappingsWithTxn(db, a, t) = Ok(db)

\* A delete of an absent pair has just returned nil on a store that holds
\* other entries.
C4_Witness == last = "noop" /\ db # EmptyStore

\* C5: for balances and diamonds the value under the forward key equals the
\* value under the mirrored reverse key, and DbGetBalanceEntry (creator-first
\* key) returns what DBGetCreatorCoinBalanceEntryForHODLerAndCreatorPKIDs
\* (holder-first key) returns, entry or nil.
C5_ForwardValueEqualsReverseValue ==
    /\ \A holder \in PKIDs, creator \in PKIDs :
        LET fwd == _dbKeyForHODLerPKIDCreatorPKIDToBalanceEntry(holder, creator)
            rev == _dbKeyForCreatorPKIDHODLerPKIDToBalanceEntry(creator, holder)
        IN  /\ Has(db, fwd) /\ Has(db, rev) => db[fwd] = db[rev]
            /\ DbGetBalanceEntry(holder, creator)
                   = DBGetCreatorCoinBalanceEntryForHODLerAndCreatorPKIDs(holder, creator)
    /\ \A receiver \in PKIDs, sender \in PKIDs, post \in BlockHashes :
        LET fwd == _dbKeyForDiamondReceiverToDiamondSenderMapping(receiver, sender, post)
            rev == _dbKeyForDiamondSenderToDiamondRecieverMapping(receiver, sender, post)
        IN  Has(db, fwd) /\ Has(db, rev) => db[fwd] = db[rev]

\* A put has just committed; a balance of MaxPayload and a diamond are stored.
C5_Witness ==
    /\ last = "put"
    /\ \E holder \in PKIDs, creator \in PKIDs :
        /\ DbGetBalanceEntry(holder, creator) # NilEntry
        /\ DbGetBalanceEntry(holder, creator).BalanceNanos = MaxPayload
    /\ KeysWithPrefix(db, _PrefixDiamondReceiverPKIDDiamondSenderPKIDPostHash) # {}

(***************************************************************************)
(* Properties of reclouts and messages.                                    *)
(***************************************************************************)
\* C6: a reclout that was put and not deleted has a forward entry keyed
\* (user, post) and a mirrored reverse entry keyed (post, user) in some
\* table; after the delete both are gone.
C6_RecloutReverseWritten ==
    \A user \in PKIDs, post \in BlockHashes :
        LET put == <<"reclout", user, post>> \in live
        IN  /\ Has(db, _dbKeyForReclouterPubKeyRecloutedPostHashToRecloutPostHash(
                           user, post)) = put
            /\ (\E prefix \in AllPrefixes : Has(db, prefix \o post \o user)) = put

\* C7: for every message entry m stored under (publicKey, t) there is an
\* entry under (m.SenderPublicKey, t) and one under (m.RecipientPublicKey, t).
C7_MessageSidesExistTogether ==
    \A publicKey \in MessagePubKeys, t \in Tstamps :
        LET m == DbGetMessageEntryWithTxn(db, publicKey, t)
        IN  m # NilEntry
            => /\ DbGetMessageEntryWithTxn(db, m.SenderPublicKey, t) # NilEntry
               /\ DbGetMessageEntryWithTxn(db, m.RecipientPublicKey, t) # NilEntry

(***************************************************************************)
(* Properties of the UTXO set.                                             *)
(***************************************************************************)
\* C8: in every committed state the counter read by GetUtxoNumEntries equals
\* the number of records in the primary UTXO table.
C8_CounterEqualsLiveRecords ==
    GetUtxoNumEntries = Cardinality(KeysWithPrefix(db, _PrefixUtxoKeyToUtxoEntry))

\* C9: an owner-index entry (P, k) exists if and only if the primary record
\* of k exists and its stored owner public key is P.
C9_OwnerIndexIffPrimaryOwner ==
    \A publicKey \in PKIDs, utxoKey \in UtxoKeys :
        Has(db, _PrefixPubKeyUtxoKey \o publicKey \o _SerializeUtxoKey(utxoKey))
        <=> LET utxoEntry == DbGetUtxoEntryForUtxoKeyWithTxn(db, utxoKey)
            IN  utxoEntry # NilEntry /\ utxoEntry.PublicKey = publicKey

\* Ascending (txid, index) order of UTXO keys.
UtxoKeyLess(k1, k2) ==
    \/ BytesLess(k1.TxID, k2.TxID)
    \/ k1.TxID = k2.TxID /\ k1.Index < k2.Index

RECURSIVE AscendingByUtxoKey(_)
\* The <<"utxo", key, entry>> history records as a list in ascending key
\* order, each entry with its key attached.
AscendingByUtxoKey(records) ==
    IF records = {} THEN <<>>
    ELSE LET least == CHOOSE r \in records :
                          \A o \in records : o = r \/ UtxoKeyLess(r[2], o[2])
         IN  <<[least[3] EXCEPT !.UtxoKey = least[2]]>>
                 \o AscendingByUtxoKey(records \ {least})

\* C10: when a key is added only while it is not live, DbGetUtxosForPubKey(P)
\* returns, without error, exactly the live entries whose owner is P, one
\* per key, in ascending (txid, index) order, each with its UtxoKey set to
\* the key it was stored under.
C10_UtxosForPubKeyAreTheLiveOnes ==
    \A publicKey \in PKIDs :
        DbGetUtxosForPubKey(publicKey, db)
            = [entries |-> AscendingByUtxoKey(
                               {r \in live : r[3].PublicKey = publicKey}),
               err |-> Nil]

\* An owner holds two UTXOs, of different amounts, which the scan returns.
C10_Witness ==
    \E publicKey \in PKIDs :
        LET got == DbGetUtxosForPubKey(publicKey, db).entries
        IN  /\ Len(got) = 2
            /\ got[1].AmountNanos # got[2].AmountNanos

(***************************************************************************)
(* The undo log:                                                           *)
(*   <prefix, block hash> -> <[][]*UtxoOperation, gob>                     *)
(***************************************************************************)
_PrefixBlockHashToUtxoOperations == <<9>>

UtxoOperationOf(type, key) == [Type |-> type, Key |-> key]

\* One operation: its type byte and the key it acts on.
GobEncodeUtxoOperation(op) == <<op.Type>> \o _SerializeUtxoKey(op.Key)

GobDecodeUtxoOperation(bytes) ==
    UtxoOperationOf(Head(bytes), _UtxoKeyFromDbKey(Tail(bytes)))

\* A plausible bug: the lists of the block are written as one list.
_EncodeUtxoOperationsFlattened(utxoOp) ==
    LET Flat[i \in 0..Len(utxoOp)] ==
            IF i = 0 THEN <<>> ELSE Flat[i - 1] \o utxoOp[i]
        all == Flat[Len(utxoOp)]
    IN  GobEncode(6, <<GobFields([j \in 1..Len(all) |->
                                     GobEncodeUtxoOperation(all[j])])>>)

\* The outer slice as fields, each the fields of one inner slice.
_EncodeUtxoOperations(utxoOp) ==
    GobEncode(6, [i \in 1..Len(utxoOp) |->
                     GobFields([j \in 1..Len(utxoOp[i]) |->
                                   GobEncodeUtxoOperation(utxoOp[i][j])])])

_DecodeUtxoOperations(data) ==
    IF data = <<>> \/ Head(data) # 6 THEN [ops |-> <<>>, err |-> ErrDecode]
    ELSE
    LET outer == GobParse(Tail(data))
        inner(i) == GobParse(outer.fields[i])
    IN  IF ~outer.ok \/ \E i \in 1..Len(outer.fields) : ~inner(i).ok
        THEN [ops |-> <<>>, err |-> ErrDecode]
        ELSE [ops |-> [i \in 1..Len(outer.fields) |->
                          [j \in 1..Len(inner(i).fields) |->
                              GobDecodeUtxoOperation(inner(i).fields[j])]],
              err |-> Nil]

_DbKeyForUtxoOps(blockHash) == _PrefixBlockHashToUtxoOperations \o blockHash

GetUtxoOperationsForBlockWithTxn(txn, blockHash) ==
    LET utxoOpsItem == TxnGet(txn, _DbKeyForUtxoOps(blockHash))
    IN  IF utxoOpsItem.err # Nil THEN [ops |-> <<>>, err |-> utxoOpsItem.err]
        ELSE _DecodeUtxoOperations(utxoOpsItem.val)

\* GetUtxoOperationsForBlock reads in a read-only transaction.
GetUtxoOperationsForBlock(blockHash) ==
    GetUtxoOperationsForBlockWithTxn(db, blockHash)

PutUtxoOperationsForBlockWithTxn(txn, blockHash, utxoOpsForBlock) ==
    Ok(TxnSet(txn, _DbKeyForUtxoOps(blockHash), _EncodeUtxoOperations(utxoOpsForBlock)))

DeleteUtxoOperationsForBlockWithTxn(txn, blockHash) ==
    Ok(TxnDelete(txn, _DbKeyForUtxoOps(blockHash)))

\* Two operations on different outputs, and the logs drawn as inputs: they
\* differ in nesting and in order.
OpAdd == UtxoOperationOf(1, UtxoKeyOf(BlockHashOf(1), 0))
OpSpend == UtxoOperationOf(2, UtxoKeyOf(BlockHashOf(NumHashes), MaxUtxoIndex))
UtxoOpsLists ==
    { <<>>, << <<>> >>, << <<OpAdd, OpSpend>> >>, << <<OpSpend, OpAdd>> >>,
      << <<OpAdd>> >>, << <<OpAdd>>, <<OpSpend>> >>, << <<OpSpend>>, <<OpAdd>> >>,
      << <<OpAdd>>, <<>>, <<OpSpend>> >> }

PutUtxoOperationsForBlock ==
    \E blockHash \in BlockHashes, utxoOpsForBlock \in UtxoOpsLists :
        LET res == PutUtxoOperationsForBlockWithTxn(db, blockHash, utxoOpsForBlock)
        IN  /\ WithinStoreBound(res)
            /\ db' = Commit(res)
            /\ last' = OpKind(res, "put")
            /\ UNCHANGED open
            /\ live' = {l \in live : l[2] # blockHash}
                           \cup {<<"utxoops", blockHash, utxoOpsForBlock>>}

DeleteUtxoOperationsForBlock ==
    \E blockHash \in BlockHashes :
        LET res == DeleteUtxoOperationsForBlockWithTxn(db, blockHash)
        IN  /\ db' = Commit(res)
            /\ last' = OpKind(res, "delete")
            /\ UNCHANGED open
            /\ live' = {l \in live : l[2] # blockHash}

NextUndoLog ==
    \/ PutUtxoOperationsForBlock
    \/ DeleteUtxoOperationsForBlock

\* Put and delete transactions on the undo log.
SpecUndoLog == Init /\ [][NextUndoLog]_vars

\* C11: after a put of ops for block hash h, GetUtxoOperationsForBlock(h)
\* returns ops, same nesting and same order; after a delete for h no log is
\* retrievable for h; a put or delete for h leaves the log of every other
\* block hash as it was.
C11_UndoLogRoundTrip ==
    \A blockHash \in BlockHashes :
        LET got == GetUtxoOperationsForBlock(blockHash)
            put == {l \in live : l[2] = blockHash}
        IN  IF put = {} THEN got.err # Nil /\ got.ops = <<>>
            ELSE \A l \in put : got = [ops |-> l[3], err |-> Nil]

\* A delete has just removed a log and another block keeps a log of three
\* lists.
C11_Witness ==
    /\ last = "delete"
    /\ \E blockHash \in BlockHashes :
        Len(GetUtxoOperationsForBlock(blockHash).ops) = 3

(***************************************************************************)
(* Paginated range scans.                                                  *)
(***************************************************************************)
ReverseSeq(s) == [i \in 1..Len(s) |-> s[Len(s) + 1 - i]]

\* The keys in the order the iterator visits them.
IteratorKeys(txn, reverse) ==
    IF reverse THEN ReverseSeq(SortedKeys(DOMAIN txn)) ELSE SortedKeys(DOMAIN txn)

\* key is at or after the seek key in the direction of the iteration.
AtOrAfter(key, seekKey, reverse) ==
    \/ key = seekKey
    \/ IF reverse THEN BytesLess(key, seekKey) ELSE BytesLess(seekKey, key)

\* A plausible bug: Seek passes over a key equal to the seek key.
IteratorSeekStrictlyAfter(keys, prefix, reverse) ==
    IF prefix = <<>> THEN 1
    ELSE LET at == {i \in 1..Len(keys) :
                       keys[i] # prefix /\ AtOrAfter(keys[i], prefix, reverse)}
         IN  IF at = {} THEN Len(keys) + 1
             ELSE CHOOSE i \in at : \A j \in at : i <= j

\* it.Seek(prefix): the position of the first key at or after prefix, or one
\* past the end.  Seeking the empty key rewinds the iterator.
IteratorSeek(keys, prefix, reverse) ==
    IF prefix = <<>> THEN 1
    ELSE LET at == {i \in 1..Len(keys) : AtOrAfter(keys[i], prefix, reverse)}
         IN  IF at = {} THEN Len(keys) + 1
             ELSE CHOOSE i \in at : \A j \in at : i <= j

\* The seek key of a reverse scan: startPrefix cut or padded with 0xFF to
\* maxKeyLen bytes.
ReverseSeekPrefix(startPrefix, maxKeyLen) ==
    [ii \in 1..maxKeyLen |->
        IF ii <= Len(startPrefix) THEN startPrefix[ii] ELSE 255]

\* The result of a scan; a nil list is the empty list.
ScanResult(keysFound, valsFound, err) ==
    [keysFound |-> keysFound, valsFound |-> valsFound, err |-> err]

RECURSIVE ScanLoopPartialOnError(_, _, _, _, _, _, _, _, _)
\* A plausible bug: on a key of another length the loop returns the error
\* with what it has collected so far.
ScanLoopPartialOnError(txn, keys, i, validForPrefix, maxKeyLen, numToFetch, fetchValues, keysFound, valsFound) ==
    IF i > Len(keys) \/ ~IsPrefixOf(validForPrefix, keys[i])
    THEN ScanResult(keysFound, valsFound, Nil)
    ELSE IF maxKeyLen # 0 /\ Len(keys[i]) # maxKeyLen
    THEN ScanResult(keysFound, valsFound, ErrLength)
    ELSE LET keysNow == Append(keysFound, keys[i])
             valsNow == Append(valsFound, IF fetchValues THEN txn[keys[i]] ELSE <<>>)
         IN  IF numToFetch # 0 /\ Len(keysNow) = numToFetch
             THEN ScanResult(keysNow, valsNow, Nil)
             ELSE ScanLoopPartialOnError(txn, keys, i + 1, validForPrefix, maxKeyLen,
                                         numToFetch, fetchValues, keysNow, valsNow)

RECURSIVE ScanLoop(_, _, _, _, _, _, _, _, _)
\* The body of the for loop, the iterator at position i of keys.
ScanLoop(txn, keys, i, validForPrefix, maxKeyLen, numToFetch, fetchValues, keysFound, valsFound) ==
    IF i > Len(keys) \/ ~IsPrefixOf(validForPrefix, keys[i])
    THEN ScanResult(keysFound, valsFound, Nil)
    ELSE IF maxKeyLen # 0 /\ Len(keys[i]) # maxKeyLen
    THEN ScanResult(<<>>, <<>>, ErrLength)
    ELSE LET keysNow == Append(keysFound, keys[i])
             valsNow == Append(valsFound, IF fetchValues THEN txn[keys[i]] ELSE <<>>)
         IN  IF numToFetch # 0 /\ Len(keysNow) = numToFetch
             THEN ScanResult(keysNow, valsNow, Nil)
             ELSE ScanLoop(txn, keys, i + 1, validForPrefix, maxKeyLen, numToFetch,
                           fetchValues, keysNow, valsNow)

\* A plausible bug: the reverse scan seeks startPrefix without the padding.
DBGetPaginatedKeysAndValuesUnpadded(dbTxn, startPrefix, validForPrefix, maxKeyLen, numToFetch, reverse, fetchValues) ==
    LET keys == IteratorKeys(dbTxn, reverse)
    IN  ScanLoop(dbTxn, keys, IteratorSeek(keys, startPrefix, reverse),
                 validForPrefix, maxKeyLen, numToFetch, fetchValues, <<>>, <<>>)

DBGetPaginatedKeysAndValuesForPrefixWithTxn(dbTxn, startPrefix, validForPrefix, maxKeyLen, numToFetch, reverse, fetchValues) ==
    LET prefix == IF reverse THEN ReverseSeekPrefix(startPrefix, maxKeyLen)
                  ELSE startPrefix
        keys == IteratorKeys(dbTxn, reverse)
    IN  ScanLoop(dbTxn, keys, IteratorSeek(keys, prefix, reverse),
                 validForPrefix, maxKeyLen, numToFetch, fetchValues, <<>>, <<>>)

\* DBGetPaginatedKeysAndValuesForPrefix scans in a read-only transaction.
DBGetPaginatedKeysAndValuesForPrefix(startPrefix, validForPrefix, keyLen, numToFetch, reverse, fetchValues) ==
    DBGetPaginatedKeysAndValuesForPrefixWithTxn(
        db, startPrefix, validForPrefix, keyLen, numToFetch, reverse, fetchValues)

\* The largest BlockHash: every byte 0xFF.
MaxBlockHash == [i \in 1..HashSizeBytes |-> 255]
\* The posts reclouted in the scanned stores.
ScanHashes == {BlockHashOf(1), BlockHashOf(NumHashes), MaxBlockHash}

\* The PKIDs that follow each other in the scanned stores.
ScanPKIDs == {PKIDOf(1), PKIDOf(NumPKIDs)}

\* Reclouts of any post, the largest hash included, by the users that also
\* exchange messages.
DbPutRecloutMappingsOfAnyPost ==
    \E userPubKey \in MessagePubKeys, recloutedPostHash \in ScanHashes :
        LET res == DbPutRecloutMappingsWithTxn(
                       db, userPubKey, recloutedPostHash,
                       RecloutEntryOf(userPubKey, recloutedPostHash, BlockHashOf(1)))
        IN  /\ WithinStoreBound(res)
            /\ db' = Commit(res)
            /\ last' = OpKind(res, "put")
            /\ UNCHANGED open
            /\ live' = LivePut(res, "reclout", <<userPubKey, recloutedPostHash>>)

DbDeleteRecloutMappingsOfAnyPost ==
    \E userPubKey \in MessagePubKeys, recloutedPostHash \in ScanHashes :
        LET res == DbDeleteRecloutMappingsWithTxn(db, userPubKey, recloutedPostHash)
        IN  /\ db' = Commit(res)
            /\ last' = OpKind(res, "delete")
            /\ UNCHANGED open
            /\ live' = LiveDelete(res, "reclout", <<userPubKey, recloutedPostHash>>)

\* The stores the scans run on: reclouts (keys of one length) and follows
\* (longer keys, in tables that sort before the reclouts).
DbPutFollowMappingsOfScan ==
    \E followerPKID \in ScanPKIDs, followedPKID \in ScanPKIDs :
        LET res == DbPutFollowMappingsWithTxn(db, followerPKID, followedPKID)
        IN  /\ WithinStoreBound(res)
            /\ db' = Commit(res)
            /\ last' = OpKind(res, "put")
            /\ UNCHANGED open
            /\ live' = LivePut(res, "follow", <<followerPKID, followedPKID>>)

DbDeleteFollowMappingsOfScan ==
    \E followerPKID \in ScanPKIDs, followedPKID \in ScanPKIDs :
        LET res == DbDeleteFollowMappingsWithTxn(db, followerPKID, followedPKID)
        IN  /\ db' = Commit(res)
            /\ last' = OpKind(res, "delete")
            /\ UNCHANGED open
            /\ live' = LiveDelete(res, "follow", <<followerPKID, followedPKID>>)

NextScan ==
    \/ DbPutRecloutMappingsOfAnyPost
    \/ DbDeleteRecloutMappingsOfAnyPost
    \/ DbPutFollowMappingsOfScan
    \/ DbDeleteFollowMappingsOfScan

SpecScan == Init /\ [][NextScan]_vars

RecloutKeyLen == 1 + PubKeyBytesLenCompressed + HashSizeBytes
FollowKeyLen == 1 + 2 * PubKeyBytesLenCompressed

\* The shared prefixes scanned: the whole store, a table, one user's reclouts.
ScanPrefixes ==
    {<<>>, _PrefixFollowerPKIDToFollowedPKID,
     _PrefixReclouterPubKeyRecloutedPostHashToRecloutPostHash}
    \cup {_PrefixReclouterPubKeyRecloutedPostHashToRecloutPostHash \o user :
              user \in {PKIDOf(1), PKIDOf(NumPKIDs)}}

\* C12: when the keys that share prefix P all have length maxKeyLen, the
\* reverse scan (startPrefix = validForPrefix = P, numToFetch = 0) returns
\* all of them in strictly decreasing byte order, and its lists are the
\* forward scan's lists reversed; also when the largest key ends in 0xFF.
C12_ReverseScanIsReversedForwardScan ==
    \A P \in ScanPrefixes, maxKeyLen \in {RecloutKeyLen, FollowKeyLen},
       fetchValues \in BOOLEAN :
        (\A key \in KeysWithPrefix(db, P) : Len(key) = maxKeyLen)
        => LET rev == DBGetPaginatedKeysAndValuesForPrefix(
                          P, P, maxKeyLen, 0, TRUE, fetchValues)
               fwd == DBGetPaginatedKeysAndValuesForPrefix(
                          P, P, maxKeyLen, 0, FALSE, fetchValues)
           IN  /\ rev.err = Nil /\ fwd.err = Nil
               /\ {rev.keysFound[i] : i \in 1..Len(rev.keysFound)}
                      = KeysWithPrefix(db, P)
               /\ Len(rev.keysFound) = Cardinality(KeysWithPrefix(db, P))
               /\ \A i \in 1..Len(rev.keysFound) - 1 :
                      BytesLess(rev.keysFound[i + 1], rev.keysFound[i])
               /\ rev.keysFound = ReverseSeq(fwd.keysFound)
               /\ rev.valsFound = ReverseSeq(fwd.valsFound)

\* A delete has just committed and a user has three reclouts, one of them of
\* the post whose hash is all 0xFF.
C12_Witness ==
    /\ last = "delete"
    /\ \E user \in {PKIDOf(1), PKIDOf(NumPKIDs)} :
        LET P == _PrefixReclouterPubKeyRecloutedPostHashToRecloutPostHash \o user
        IN  /\ Cardinality(KeysWithPrefix(db, P)) = 3
            /\ Has(db, P \o MaxBlockHash)

\* Largest page size asked for.
MaxNumToFetch == 2

\* Where scans start: a prefix, or an exact key of a user's reclout.
ScanStarts ==
    {<<>>, _PrefixReclouterPubKeyRecloutedPostHashToRecloutPostHash,
     _PrefixReclouterPubKeyRecloutedPostHashToRecloutPostHash \o PKIDOf(1),
     _dbKeyForReclouterPubKeyRecloutedPostHashToRecloutPostHash(
         PKIDOf(NumPKIDs), BlockHashOf(1))}

ScanValidForPrefixes ==
    {<<>>, _PrefixReclouterPubKeyRecloutedPostHashToRecloutPostHash,
     _PrefixReclouterPubKeyRecloutedPostHashToRecloutPostHash \o PKIDOf(NumPKIDs)}

ScanKeyLens == {0, RecloutKeyLen, FollowKeyLen}

\* The keys an unbounded scan visits, as a set: those at or after the seek
\* key with no key lacking validForPrefix between the seek key and them.
VisitedKeys(startPrefix, validForPrefix, maxKeyLen, reverse) ==
    LET seekKey == IF reverse THEN ReverseSeekPrefix(startPrefix, maxKeyLen)
                   ELSE startPrefix
        Reached(key) == seekKey = <<>> \/ AtOrAfter(key, seekKey, reverse)
    IN  {key \in DOMAIN db :
            /\ Reached(key)
            /\ \A other \in DOMAIN db :
                   Reached(other) /\ AtOrAfter(key, other, reverse)
                       => IsPrefixOf(validForPrefix, other)}

\* keys is in iteration order: ascending, or descending when reverse.
InIterationOrder(keys, reverse) ==
    \A i \in 1..Len(keys) - 1 :
        IF reverse THEN BytesLess(keys[i + 1], keys[i])
        ELSE BytesLess(keys[i], keys[i + 1])

\* C13: a scan that returns no error returns, in iteration order, the keys
\* from the first one at or after the start up to the first one that lacks
\* validForPrefix; numToFetch = 0 returns all M of them, numToFetch = n > 0
\* the first min(n, M); the key list and the value list have equal length.
C13_ScanReturnsIterationOrderPrefix ==
    \A startPrefix \in ScanStarts, validForPrefix \in ScanValidForPrefixes,
       maxKeyLen \in ScanKeyLens, reverse \in BOOLEAN, fetchValues \in BOOLEAN :
        LET all == DBGetPaginatedKeysAndValuesForPrefix(
                       startPrefix, validForPrefix, maxKeyLen, 0, reverse, fetchValues)
            M == Len(all.keysFound)
        IN  /\ Len(all.keysFound) = Len(all.valsFound)
            /\ all.err = Nil =>
                /\ {all.keysFound[i] : i \in 1..M}
                       = VisitedKeys(startPrefix, validForPrefix, maxKeyLen, reverse)
                /\ InIterationOrder(all.keysFound, reverse)
                /\ \A i \in 1..M :
                       all.valsFound[i]
                           = IF fetchValues THEN db[all.keysFound[i]] ELSE <<>>
                /\ \A n \in 1..MaxNumToFetch :
                       LET page == DBGetPaginatedKeysAndValuesForPrefix(
                                       startPrefix, validForPrefix, maxKeyLen, n,
                                       reverse, fetchValues)
                           m == IF n < M THEN n ELSE M
                       IN  /\ page.err = Nil
                           /\ page.keysFound = SubSeq(all.keysFound, 1, m)
                           /\ page.valsFound = SubSeq(all.valsFound, 1, m)

\* A scan that starts at a stored key finds three keys, so that a page of
\* two is cut short of the unbounded result.
C13_Witness ==
    LET start == _dbKeyForReclouterPubKeyRecloutedPostHashToRecloutPostHash(
                     PKIDOf(NumPKIDs), BlockHashOf(1))
        all == DBGetPaginatedKeysAndValuesForPrefix(
                   start, _PrefixReclouterPubKeyRecloutedPostHashToRecloutPostHash,
                   RecloutKeyLen, 0, TRUE, TRUE)
    IN  /\ Has(db, start)
        /\ all.err = Nil
        /\ Len(all.keysFound) = 3

\* The position at which an unbounded scan visits key.
VisitPosition(key, visited, reverse) ==
    Cardinality({other \in visited : AtOrAfter(key, other, reverse)})

\* The scan reaches a key that carries validForPrefix and whose length is
\* not maxKeyLen: such a key is visited before numToFetch keys were found.
ReachesKeyOfOtherLength(startPrefix, validForPrefix, maxKeyLen, numToFetch, reverse) ==
    LET visited == VisitedKeys(startPrefix, validForPrefix, maxKeyLen, reverse)
    IN  \E key \in visited :
            /\ Len(key) # maxKeyLen
            /\ numToFetch = 0 \/ VisitPosition(key, visited, reverse) <= numToFetch

_PrefixHeightHashToNodeInfo == <<1>>
_PrefixBitcoinHeightHashToNodeInfo == <<2>>

\* BlockStatus bits (declared with BlockNode, outside this file, as
\* 1 << iota after StatusNone).
StatusNone == 0
StatusHeaderValidated == 2 ^ 1
StatusBlockProcessed == 2 ^ 3
StatusBlockStored == 2 ^ 4
StatusBlockValidated == 2 ^ 5
StatusBitcoinHeaderValidated == 2 ^ 7

\* status & bit # 0, for a bit that is a power of two.
HasStatus(status, bit) == (status \div bit) % 2 = 1

\* BlockHash{}: the hash of all zero bytes.
ZeroBlockHash == [i \in 1..HashSizeBytes |-> 0]

ErrEOF == "unexpected EOF"
ErrOrphan == "could not find parent for blockNode"
ErrInvalidNode == "invalid node found in main chain"

RECURSIVE UintToBuf(_)
\* binary.PutUvarint: seven bits a byte, lowest first, the high bit set on
\* every byte but the last.
UintToBuf(xx) ==
    IF xx < 128 THEN <<xx>>
    ELSE <<(xx % 128) + 128>> \o UintToBuf(xx \div 128)

\* binary.PutVarint of a length: the zig-zag encoding of a number >= 0.
IntToBuf(xx) == UintToBuf(2 * xx)

RECURSIVE ReadUvarint(_)
\* binary.ReadUvarint: the number, the bytes after it, and io.EOF when the
\* bytes end before a byte without the high bit.
ReadUvarint(rr) ==
    IF rr = <<>> THEN [val |-> 0, rest |-> <<>>, err |-> ErrEOF]
    ELSE IF Head(rr) < 128 THEN [val |-> Head(rr), rest |-> Tail(rr), err |-> Nil]
    ELSE LET high == ReadUvarint(Tail(rr))
         IN  [val |-> (Head(rr) - 128) + 128 * high.val,
              rest |-> high.rest, err |-> high.err]

\* binary.ReadVarint of a length; an odd encoding is a negative length, for
\* which make([]byte, payloadLen) panics: the read fails.
ReadVarint(rr) ==
    LET ux == ReadUvarint(rr)
    IN  IF ux.err # Nil THEN ux
        ELSE IF ux.val % 2 = 1 THEN [val |-> 0, rest |-> ux.rest, err |-> ErrLength]
        ELSE [val |-> ux.val \div 2, rest |-> ux.rest, err |-> Nil]

\* io.ReadFull(rr, buf[:n]).
ReadFull(rr, n) ==
    IF Len(rr) < n THEN [val |-> <<>>, rest |-> <<>>, err |-> ErrEOF]
    ELSE [val |-> SubSeq(rr, 1, n), rest |-> SubSeq(rr, n + 1, Len(rr)), err |-> Nil]

\* MsgBitCloutHeader.ToBytes / FromBytes, of which only PrevBlockHash is read
\* by this file.
HeaderToBytes(header) == header.PrevBlockHash

HeaderFromBytes(headerBytes) ==
    IF Len(headerBytes) # HashSizeBytes
    THEN [header |-> NilEntry, err |-> ErrDecode]
    ELSE [header |-> [PrevBlockHash |-> headerBytes], err |-> Nil]

\* BigintToHash / HashToBigint: a number as the big-endian bytes of a hash.
BigintToHash(bigint) == PutBigEndian(bigint, HashSizeBytes)
HashToBigint(hash) == DecodeBigEndian(hash)

\* NewBlockNode.
NewBlockNode(parent, hash, height, difficultyTarget, cumWork, header, status) ==
    [Parent |-> parent, Hash |-> hash, Height |-> height,
     DifficultyTarget |-> difficultyTarget, CumWork |-> cumWork,
     Header |-> header, Status |-> status]

\* uint32(x), for the numbers of the model, all of which are below 2^32.
Uint32(xx) == xx

SerializeBlockNode(blockNode) ==
    LET serializedHeader == HeaderToBytes(blockNode.Header)
    IN  [data |-> blockNode.Hash
                  \o UintToBuf(blockNode.Height)
                  \o blockNode.DifficultyTarget
                  \o BigintToHash(blockNode.CumWork)
                  \o IntToBuf(Len(serializedHeader))
                  \o serializedHeader
                  \o UintToBuf(blockNode.Status),
         err |-> Nil]

DeserializeBlockNode(data) ==
    LET failed(err) == [blockNode |-> NilEntry, err |-> err]
        hash == ReadFull(data, HashSizeBytes)
        height == ReadUvarint(hash.rest)
        difficultyTarget == ReadFull(height.rest, HashSizeBytes)
        cumWork == ReadFull(difficultyTarget.rest, HashSizeBytes)
        payloadLen == ReadVarint(cumWork.rest)
        headerBytes == ReadFull(payloadLen.rest, payloadLen.val)
        header == HeaderFromBytes(headerBytes.val)
        status == ReadUvarint(headerBytes.rest)
    IN  IF hash.err # Nil THEN failed(hash.err)
        ELSE IF height.err # Nil THEN failed(height.err)
        ELSE IF difficultyTarget.err # Nil THEN failed(difficultyTarget.err)
        ELSE IF cumWork.err # Nil THEN failed(cumWork.err)
        ELSE IF payloadLen.err # Nil THEN failed(payloadLen.err)
        ELSE IF headerBytes.err # Nil THEN failed(headerBytes.err)
        ELSE IF header.err # Nil THEN failed(header.err)
        ELSE IF status.err # Nil THEN failed(status.err)
        ELSE [blockNode |-> NewBlockNode(
                                NilEntry, hash.val, Uint32(height.val),
                                difficultyTarget.val, HashToBigint(cumWork.val),
                                header.header, Uint32(status.val)),
              err |-> Nil]

_heightHashToNodeIndexPrefix(bitcoinNodes) ==
    IF bitcoinNodes THEN _PrefixBitcoinHeightHashToNodeInfo
    ELSE _PrefixHeightHashToNodeInfo

_heightHashToNodeIndexKey(height, hash, bitcoinNodes) ==
    _heightHashToNodeIndexPrefix(bitcoinNodes) \o PutBigEndian(height, 4) \o hash

GetHeightHashToNodeInfoWithTxn(txn, height, hash, bitcoinNodes) ==
    LET nodeValue == TxnGet(txn, _heightHashToNodeIndexKey(height, hash, bitcoinNodes))
    IN  IF nodeValue.err # Nil THEN NilEntry
        ELSE DeserializeBlockNode(nodeValue.val).blockNode

GetHeightHashToNodeInfo(height, hash, bitcoinNodes) ==
    GetHeightHashToNodeInfoWithTxn(db, height, hash, bitcoinNodes)

PutHeightHashToNodeInfoWithTxn(txn, node, bitcoinNodes) ==
    LET key == _heightHashToNodeIndexKey(node.Height, node.Hash, bitcoinNodes)
        serializedNode == SerializeBlockNode(node)
    IN  IF serializedNode.err # Nil THEN Fail(txn, serializedNode.err)
        ELSE Ok(TxnSet(txn, key, serializedNode.data))

DbDeleteHeightHashToNodeInfoWithTxn(node, txn, bitcoinNodes) ==
    Ok(TxnDelete(txn, _heightHashToNodeIndexKey(node.Height, node.Hash, bitcoinNodes)))

RECURSIVE DbBulkDeleteLoop(_, _, _)
\* for _, nn := range nodes, inside one transaction.
DbBulkDeleteLoop(nodes, txn, bitcoinNodes) ==
    IF nodes = <<>> THEN Ok(txn)
    ELSE LET res == DbDeleteHeightHashToNodeInfoWithTxn(Head(nodes), txn, bitcoinNodes)
         IN  IF res.err # Nil THEN res
             ELSE DbBulkDeleteLoop(Tail(nodes), res.txn, bitcoinNodes)

\* The result of GetBlockIndex; a nil map is the empty map.
BlockIndexResult(blockIndex, err) == [blockIndex |-> blockIndex, err |-> err]

\* blockIndex[hash] = blockNode.
MapSet(blockIndex, hash, blockNode) ==
    [h \in DOMAIN blockIndex \cup {hash} |->
        IF h = hash THEN blockNode ELSE blockIndex[h]]

RECURSIVE GetBlockIndexLoopSkipOrphans(_, _, _, _)
\* A plausible bug: a node whose parent is not in the index is kept without
\* a parent.
GetBlockIndexLoopSkipOrphans(txn, keys, i, blockIndex) ==
    IF i > Len(keys) THEN BlockIndexResult(blockIndex, Nil)
    ELSE LET decoded == DeserializeBlockNode(txn[keys[i]])
             blockNode == decoded.blockNode
             stored == MapSet(blockIndex, blockNode.Hash, blockNode)
             prev == blockNode.Header.PrevBlockHash
         IN  IF decoded.err # Nil THEN BlockIndexResult(<<>>, decoded.err)
             ELSE IF blockNode.Height = 0 \/ prev = ZeroBlockHash \/ prev \notin DOMAIN stored
             THEN GetBlockIndexLoopSkipOrphans(txn, keys, i + 1, stored)
             ELSE GetBlockIndexLoopSkipOrphans(
                      txn, keys, i + 1,
                      MapSet(stored, blockNode.Hash,
                             [blockNode EXCEPT !.Parent = stored[prev]]))

RECURSIVE GetBlockIndexLoop(_, _, _, _)
\* The loop of GetBlockIndex, the iterator at position i of keys.  A node
\* holds its parent as a value: the parent as it was when it was linked,
\* which is what the pointer of the program leads to as long as no node
\* names itself as its predecessor.  GetBlockIndexLoopByReference keeps the
\* pointers.
GetBlockIndexLoop(txn, keys, i, blockIndex) ==
    IF i > Len(keys) THEN BlockIndexResult(blockIndex, Nil)
    ELSE LET decoded == DeserializeBlockNode(txn[keys[i]])
             blockNode == decoded.blockNode
             stored == MapSet(blockIndex, blockNode.Hash, blockNode)
             prev == blockNode.Header.PrevBlockHash
         IN  IF decoded.err # Nil THEN BlockIndexResult(<<>>, decoded.err)
             ELSE IF blockNode.Height = 0 \/ prev = ZeroBlockHash
             THEN GetBlockIndexLoop(txn, keys, i + 1, stored)
             ELSE IF prev \in DOMAIN stored
             THEN GetBlockIndexLoop(
                      txn, keys, i + 1,
                      MapSet(stored, blockNode.Hash,
                             [blockNode EXCEPT !.Parent = stored[prev]]))
             ELSE BlockIndexResult(<<>>, ErrOrphan)

GetBlockIndex(bitcoinNodes) ==
    LET prefix == _heightHashToNodeIndexPrefix(bitcoinNodes)
    IN  GetBlockIndexLoop(db, SortedKeys(KeysWithPrefix(db, prefix)), 1, <<>>)

RECURSIVE ReversedBestChainUnchecked(_)
\* A plausible bug: the walk does not look at the status of the nodes.
ReversedBestChainUnchecked(tipNode) ==
    IF tipNode = NilEntry THEN [chain |-> <<>>, err |-> Nil]
    ELSE LET rest == ReversedBestChainUnchecked(tipNode.Parent)
         IN  [chain |-> <<tipNode>> \o rest.chain, err |-> Nil]

RECURSIVE ReversedBestChain(_)
\* The first loop of GetBestChain: the nodes from tipNode to the root, or
\* an error at the first node without a validated status.
ReversedBestChain(tipNode) ==
    IF tipNode = NilEntry THEN [chain |-> <<>>, err |-> Nil]
    ELSE IF /\ ~HasStatus(tipNode.Status, StatusBlockValidated)
            /\ ~HasStatus(tipNode.Status, StatusBitcoinHeaderValidated)
    THEN [chain |-> <<>>, err |-> ErrInvalidNode]
    ELSE LET rest == ReversedBestChain(tipNode.Parent)
         IN  IF rest.err # Nil THEN rest
             ELSE [chain |-> <<tipNode>> \o rest.chain, err |-> Nil]

\* A plausible bug: the chain is returned as it was walked, tip first.
GetBestChainTipFirst(tipNode, blockIndex) ==
    LET reversed == ReversedBestChain(tipNode)
    IN  IF reversed.err # Nil THEN [bestChain |-> <<>>, err |-> reversed.err]
        ELSE [bestChain |-> reversed.chain, err |-> Nil]

\* GetBestChain; a nil chain is the empty chain.
GetBestChain(tipNode, blockIndex) ==
    LET reversed == ReversedBestChain(tipNode)
    IN  IF reversed.err # Nil THEN [bestChain |-> <<>>, err |-> reversed.err]
        ELSE [bestChain |-> ReverseSeq(reversed.chain), err |-> Nil]

\* The blocks written to the chain index.  A block's hash is the hash of
\* its header, so the hash decides PrevBlockHash: the first hash is a block
\* without a predecessor, every other hash follows the hash before it.
ChainHashes == <<BlockHashOf(1), BlockHashOf(NumHashes), MaxBlockHash>>
MaxHeight == Len(ChainHashes) - 1

StatusFullyValidated ==
    StatusHeaderValidated + StatusBlockProcessed + StatusBlockStored
        + StatusBlockValidated

ChainNodeOf(i, height, status) ==
    NewBlockNode(NilEntry, ChainHashes[i], height, BlockHashOf(1), height + 1,
                 [PrevBlockHash |-> IF i = 1 THEN ZeroBlockHash ELSE ChainHashes[i - 1]],
                 status)

\* The heights a block is written at: its own, one above the block before
\* it; the first block also at the greatest height, above its successors,
\* and the last block also at height 1, beside the block before it.
ChainHeights(i) ==
    {i - 1} \cup (IF i = 1 THEN {MaxHeight} ELSE {})
            \cup (IF i = Len(ChainHashes) THEN {1} ELSE {})

\* BitClout blocks, header-validated or fully validated.
BitCloutNodes ==
    {ChainNodeOf(pair[1], pair[2], status) :
        pair \in {pp \in (1..Len(ChainHashes)) \X (0..MaxHeight) : pp[2] \in ChainHeights(pp[1])},
        status \in {StatusHeaderValidated, StatusFullyValidated}}

\* Bitcoin headers: a start node above height 0 without a predecessor, and
\* its successor.
BitcoinNodes ==
    {ChainNodeOf(i, i, status) :
        i \in 1..2, status \in {StatusNone, StatusBitcoinHeaderValidated}}

NodesOf(bitcoinNodes) == IF bitcoinNodes THEN BitcoinNodes ELSE BitCloutNodes

\* The lists of nodes deleted in one call: none, one node, or the two nodes
\* of one height.
DeleteLists(bitcoinNodes) ==
    LET nodes == {node \in NodesOf(bitcoinNodes) :
                     node.Status \in {StatusNone, StatusHeaderValidated}}
    IN  {<<>>} \cup {<<node>> : node \in nodes}
        \cup {<<pair[1], pair[2]>> :
                 pair \in {pp \in nodes \X nodes :
                              /\ pp[1].Height = pp[2].Height
                              /\ BytesLess(pp[1].Hash, pp[2].Hash)}}

NodeId(node, bitcoinNodes) == <<"node", bitcoinNodes, node.Height, node.Hash>>

PutHeightHashToNodeInfo ==
    \E bitcoinNodes \in BOOLEAN :
        \E node \in NodesOf(bitcoinNodes) :
            LET res == PutHeightHashToNodeInfoWithTxn(db, node, bitcoinNodes)
            IN  /\ WithinStoreBound(res)
                /\ db' = Commit(res)
                /\ last' = OpKind(res, "put")
                /\ UNCHANGED open
                /\ live' = IF res.err = Nil
                           THEN live \cup {NodeId(node, bitcoinNodes)} ELSE live

DbBulkDeleteHeightHashToNodeInfo ==
    \E bitcoinNodes \in BOOLEAN :
        \E nodes \in DeleteLists(bitcoinNodes) :
            LET res == DbBulkDeleteLoop(nodes, db, bitcoinNodes)
            IN  /\ db' = Commit(res)
                /\ last' = OpKind(res, "delete")
                /\ UNCHANGED open
                /\ live' = IF res.err = Nil
                           THEN live \ {NodeId(nodes[i], bitcoinNodes) : i \in 1..Len(nodes)}
                           ELSE live

NextChain ==
    \/ PutHeightHashToNodeInfo
    \/ DbBulkDeleteHeightHashToNodeInfo

SpecChain == Init /\ [][NextChain]_vars

\* The nodes stored in a table of the chain index.
StoredNodes(bitcoinNodes) ==
    {DeserializeBlockNode(db[key]).blockNode :
        key \in KeysWithPrefix(db, _heightHashToNodeIndexPrefix(bitcoinNodes))}

\* nodes is one node at each of the heights 0..k, each above height 0
\* naming the node one height below in its header, all block-validated.
IsValidatedChain(nodes, k) ==
    /\ Cardinality(nodes) = k + 1
    /\ \A height \in 0..k : \E node \in nodes : node.Height = height
    /\ \A node \in nodes : HasStatus(node.Status, StatusBlockValidated)
    /\ \A node \in nodes, below \in nodes :
           node.Height = below.Height + 1 => node.Header.PrevBlockHash = below.Hash

NodeAtHeight(nodes, height) == CHOOSE node \in nodes : node.Height = height

\* C15: when a table holds exactly a validated chain of heights 0..k,
\* GetBlockIndex returns exactly its k+1 nodes, each above height 0 with the
\* node one height below as Parent, and GetBestChain of the node at height k
\* returns the k+1 nodes from height 0 up to height k.
C15_ChainIsReconstructed ==
    \A bitcoinNodes \in BOOLEAN, k \in 0..MaxHeight :
        LET nodes == StoredNodes(bitcoinNodes)
            res == GetBlockIndex(bitcoinNodes)
            index == res.blockIndex
            InIndex(height) == index[NodeAtHeight(nodes, height).Hash]
            best == GetBestChain(InIndex(k), index)
        IN  IsValidatedChain(nodes, k) =>
                /\ res.err = Nil
                /\ DOMAIN index = {node.Hash : node \in nodes}
                /\ Cardinality(DOMAIN index) = k + 1
                /\ \A node \in nodes :
                       /\ [index[node.Hash] EXCEPT !.Parent = NilEntry] = node
                       /\ index[node.Hash].Parent
                              = IF node.Height = 0 THEN NilEntry
                                ELSE InIndex(node.Height - 1)
                /\ best.err = Nil
                /\ Len(best.bestChain) = k + 1
                /\ \A height \in 0..k : best.bestChain[height + 1] = InIndex(height)

\* The BitClout table holds a validated chain of the greatest height, the
\* last node of which was just written.
C15_Witness ==
    /\ last = "put"
    /\ IsValidatedChain(StoredNodes(FALSE), MaxHeight)
    /\ Len(GetBestChain(GetBlockIndex(FALSE).blockIndex[ChainHashes[MaxHeight + 1]],
                        GetBlockIndex(FALSE).blockIndex).bestChain) = MaxHeight + 1

\* node declares a parent that no key before its own holds: its height is
\* above 0, its PrevBlockHash is not zero, and no node with that hash is
\* stored at a (height, hash) key before the key of node.
IsOrphan(node, bitcoinNodes) ==
    /\ node.Height > 0
    /\ node.Header.PrevBlockHash # ZeroBlockHash
    /\ ~\E parent \in StoredNodes(bitcoinNodes) :
           /\ parent.Hash = node.Header.PrevBlockHash
           /\ BytesLess(_heightHashToNodeIndexKey(parent.Height, parent.Hash, bitcoinNodes),
                        _heightHashToNodeIndexKey(node.Height, node.Hash, bitcoinNodes))

RECURSIVE PathFromRoot(_)
\* The nodes on the parent path of node, the root first and node last.
PathFromRoot(node) ==
    IF node = NilEntry THEN <<>>
    ELSE Append(PathFromRoot(node.Parent), node)

IsValidated(node) ==
    \/ HasStatus(node.Status, StatusBlockValidated)
    \/ HasStatus(node.Status, StatusBitcoinHeaderValidated)

\* The nodes of the index of a table; none when GetBlockIndex fails.
IndexedNodes(bitcoinNodes) ==
    LET index == GetBlockIndex(bitcoinNodes).blockIndex
    IN  {index[hash] : hash \in DOMAIN index}

\* C17: GetBestChain returns an error and no chain exactly when a node on
\* the parent path of the tip has neither validated status bit; otherwise
\* it returns the path, root first and tip last, each node after the first
\* having the node before it as Parent.
C17_BestChainIffAllValidated ==
    \A bitcoinNodes \in BOOLEAN :
        \A tipNode \in IndexedNodes(bitcoinNodes) :
            LET path == PathFromRoot(tipNode)
                best == GetBestChain(tipNode, GetBlockIndex(bitcoinNodes).blockIndex)
                chain == best.bestChain
            IN  IF \E i \in 1..Len(path) : ~IsValidated(path[i])
                THEN best.err # Nil /\ chain = <<>>
                ELSE /\ best.err = Nil
                     /\ chain = path
                     /\ chain[Len(chain)] = tipNode
                     /\ chain[1].Parent = NilEntry
                     /\ \A i \in 2..Len(chain) : chain[i].Parent = chain[i - 1]

\* A validated BitClout block sits on a predecessor that is not validated,
\* and a validated Bitcoin header sits on a validated start node.
C17_Witness ==
    /\ \E tipNode \in IndexedNodes(FALSE) :
           /\ IsValidated(tipNode)
           /\ tipNode.Parent # NilEntry
           /\ ~IsValidated(tipNode.Parent)
           /\ GetBestChain(tipNode, GetBlockIndex(FALSE).blockIndex).err # Nil
    /\ \E tipNode \in IndexedNodes(TRUE) :
           /\ tipNode.Parent # NilEntry
           /\ Len(GetBestChain(tipNode, GetBlockIndex(TRUE).blockIndex).bestChain) = 2

StatusBits ==
    {StatusHeaderValidated, StatusBlockProcessed, StatusBlockStored,
     StatusBlockValidated, StatusBitcoinHeaderValidated}

\* C18: a write to the chain index never clears a status bit of a node
\* that is already stored: every bit set in the stored status of a
\* (height, hash) node is still set in its stored status after the step.
C18_StatusBitsOnlyAccumulate ==
    [][\A bitcoinNodes \in BOOLEAN :
          \A key \in KeysWithPrefix(db, _heightHashToNodeIndexPrefix(bitcoinNodes))
                         \cap DOMAIN db' :
              \A bit \in StatusBits :
                  HasStatus(DeserializeBlockNode(db[key]).blockNode.Status, bit)
                      => HasStatus(DeserializeBlockNode(db'[key]).blockNode.Status, bit)]_vars

(***************************************************************************)
(* Txindex: the transactions of a public key as an ordered list,           *)
(*   <prefix, public key, index as uint32 big-endian> -> txID              *)
(*   <prefix, public key> -> next index as uvarint                         *)
(***************************************************************************)
_PrefixPublicKeyIndexToTransactionIDs == <<16>>
\* A plausible bug: the table of the next indexes is given a selector that
\* begins with the selector of the table of the lists.
_PrefixPublicKeyToNextIndexUnderLists == <<16, 42>>
_PrefixPublicKeyToNextIndex == <<42>>

ErrNextIndex == "Error getting next index"

_enumerateKeysForPrefixWithTxn(dbTxn, dbPrefix) ==
    LET keysFound == SortedKeys(KeysWithPrefix(dbTxn, dbPrefix))
    IN  [keysFound |-> keysFound,
         valsFound |-> [i \in 1..Len(keysFound) |-> dbTxn[keysFound[i]]],
         err |-> Nil]

\* A plausible bug: one next index for the lists of all public keys.
_DbTxindexSharedNextIndexPrefix(publicKey) == _PrefixPublicKeyToNextIndex

_DbTxindexPublicKeyNextIndexPrefix(publicKey) ==
    _PrefixPublicKeyToNextIndex \o publicKey

DbTxindexPublicKeyPrefix(publicKey) ==
    _PrefixPublicKeyIndexToTransactionIDs \o publicKey

DbTxindexPublicKeyIndexToTxnKey(publicKey, index) ==
    DbTxindexPublicKeyPrefix(publicKey) \o _EncodeUint32(index)

\* copy(blockHash[:], txIDBytes[:]) into a zeroed BlockHash.
CopyToBlockHash(txIDBytes) ==
    [i \in 1..HashSizeBytes |-> IF i <= Len(txIDBytes) THEN txIDBytes[i] ELSE 0]

DbGetTxindexTxnsForPublicKeyWithTxn(dbTxn, publicKey) ==
    LET found == _enumerateKeysForPrefixWithTxn(dbTxn, DbTxindexPublicKeyPrefix(publicKey))
    IN  IF found.err # Nil THEN <<>>
        ELSE [i \in 1..Len(found.valsFound) |-> CopyToBlockHash(found.valsFound[i])]

DbGetTxindexTxnsForPublicKey(publicKey) ==
    DbGetTxindexTxnsForPublicKeyWithTxn(db, publicKey)

\* A plausible bug: the seek returns the last index, not the one after it.
_DbGetTxindexLastIndexForPublicKeBySeekWithTxn(dbTxn, publicKey) ==
    LET dbPrefixx == DbTxindexPublicKeyPrefix(publicKey)
        keys == IteratorKeys(dbTxn, TRUE)
        i == IteratorSeek(keys, dbPrefixx \o <<255, 255, 255, 255>>, TRUE)
    IN  IF i > Len(keys) \/ ~IsPrefixOf(dbPrefixx, keys[i]) THEN 0
        ELSE DecodeUint32(SubSeq(keys[i], Len(dbPrefixx) + 1, Len(keys[i])))

\* One more than the index of the last key of the public key, found by a
\* reverse seek from the largest index; 0 when there is none.
_DbGetTxindexNextIndexForPublicKeBySeekWithTxn(dbTxn, publicKey) ==
    LET dbPrefixx == DbTxindexPublicKeyPrefix(publicKey)
        maxBigEndianUint32Bytes == <<255, 255, 255, 255>>
        keys == IteratorKeys(dbTxn, TRUE)
        i == IteratorSeek(keys, dbPrefixx \o maxBigEndianUint32Bytes, TRUE)
    IN  IF i > Len(keys) \/ ~IsPrefixOf(dbPrefixx, keys[i]) THEN 0
        ELSE LET countKey == SubSeq(keys[i], Len(dbPrefixx) + 1, Len(keys[i]))
             IN  IF Len(countKey) < Len(maxBigEndianUint32Bytes) THEN 0
                 ELSE DecodeUint32(countKey) + 1

\* A *uint64: nil, or a pointer to val.
Uint64Ptr(val) == [isNil |-> FALSE, val |-> val]

_DbGetTxindexNextIndexForPublicKeyWithTxn(txn, publicKey) ==
    LET valItem == TxnGet(txn, _DbTxindexPublicKeyNextIndexPrefix(publicKey))
        nextIndexVal == ReadUvarint(valItem.val)
    IN  IF valItem.err # Nil
        THEN Uint64Ptr(_DbGetTxindexNextIndexForPublicKeBySeekWithTxn(txn, publicKey))
        ELSE IF nextIndexVal.err # Nil THEN NilEntry
        ELSE Uint64Ptr(nextIndexVal.val)

DbPutTxindexNextIndexForPublicKeyWithTxn(txn, publicKey, nextIndex) ==
    Ok(TxnSet(txn, _DbTxindexPublicKeyNextIndexPrefix(publicKey), UintToBuf(nextIndex)))

\* A plausible bug: the next index of the public key is left in place.
DbKeepTxindexNextIndexForPublicKeyWithTxn(txn, publicKey) == Ok(txn)

DbDeleteTxindexNextIndexForPublicKeyWithTxn(txn, publicKey) ==
    Ok(TxnDelete(txn, _DbTxindexPublicKeyNextIndexPrefix(publicKey)))

DbPutTxindexPublicKeyToTxnMappingSingleWithTxn(dbTxn, publicKey, txID) ==
    LET nextIndex == _DbGetTxindexNextIndexForPublicKeyWithTxn(dbTxn, publicKey)
        key == DbTxindexPublicKeyIndexToTxnKey(publicKey, Uint32(nextIndex.val))
        res == DbPutTxindexNextIndexForPublicKeyWithTxn(dbTxn, publicKey, nextIndex.val + 1)
    IN  IF nextIndex = NilEntry THEN Fail(dbTxn, ErrNextIndex)
        ELSE IF res.err # Nil THEN res
        ELSE Ok(TxnSet(res.txn, key, txID))

\* A plausible bug: the last element is removed in place of the one found.
TxIDsWithoutLastElement(txIDsInDB, txID) ==
    IF txID \in {txIDsInDB[i] : i \in 1..Len(txIDsInDB)}
    THEN SubSeq(txIDsInDB, 1, Len(txIDsInDB) - 1)
    ELSE txIDsInDB

RECURSIVE TxIDsWithout(_, _)
\* The list without the first element equal to txID, if there is one.
TxIDsWithout(txIDsInDB, txID) ==
    IF txIDsInDB = <<>> THEN <<>>
    ELSE IF Head(txIDsInDB) = txID THEN Tail(txIDsInDB)
    ELSE <<Head(txIDsInDB)>> \o TxIDsWithout(Tail(txIDsInDB), txID)

RECURSIVE DeleteTxindexMappingsLoop(_, _, _, _)
\* for pkIndex := 0; pkIndex < numMappingsInDB; pkIndex++: delete the key.
DeleteTxindexMappingsLoop(dbTxn, publicKey, pkIndex, numMappingsInDB) ==
    IF pkIndex >= numMappingsInDB THEN Ok(dbTxn)
    ELSE DeleteTxindexMappingsLoop(
             TxnDelete(dbTxn, DbTxindexPublicKeyIndexToTxnKey(publicKey, Uint32(pkIndex))),
             publicKey, pkIndex + 1, numMappingsInDB)

RECURSIVE PutTxindexMappingsLoop(_, _, _)
\* for _, singleTxID := range txIDsInDB: put the mapping again.
PutTxindexMappingsLoop(dbTxn, publicKey, txIDsInDB) ==
    IF txIDsInDB = <<>> THEN Ok(dbTxn)
    ELSE LET res == DbPutTxindexPublicKeyToTxnMappingSingleWithTxn(
                        dbTxn, publicKey, Head(txIDsInDB))
         IN  IF res.err # Nil THEN res
             ELSE PutTxindexMappingsLoop(res.txn, publicKey, Tail(txIDsInDB))

DbDeleteTxindexPublicKeyToTxnMappingSingleWithTxn(dbTxn, publicKey, txID) ==
    LET txIDsInDB == DbGetTxindexTxnsForPublicKeyWithTxn(dbTxn, publicKey)
        numMappingsInDB == Len(txIDsInDB)
        deleted == DeleteTxindexMappingsLoop(dbTxn, publicKey, 0, numMappingsInDB)
        noIndex == DbDeleteTxindexNextIndexForPublicKeyWithTxn(deleted.txn, publicKey)
    IN  IF deleted.err # Nil THEN deleted
        ELSE IF noIndex.err # Nil THEN noIndex
        ELSE PutTxindexMappingsLoop(noIndex.txn, publicKey, TxIDsWithout(txIDsInDB, txID))

\* The public keys and transactions of the lists.
TxindexPubKeys == {PKIDOf(1), PKIDOf(NumPKIDs)}
TxIDs == ScanHashes

\* The transactions put for publicKey and not deleted since, in the order
\* they were put.
TxindexList(publicKey) ==
    IF \E entry \in live : entry[1] = "txindex" /\ entry[2] = publicKey
    THEN (CHOOSE entry \in live : entry[1] = "txindex" /\ entry[2] = publicKey)[3]
    ELSE <<>>

LiveTxindex(res, publicKey, txIDs) ==
    IF res.err # Nil THEN live
    ELSE {entry \in live : ~(entry[1] = "txindex" /\ entry[2] = publicKey)}
             \cup {<<"txindex", publicKey, txIDs>>}

DbPutTxindexPublicKeyToTxnMappingSingle ==
    \E publicKey \in TxindexPubKeys, txID \in TxIDs :
        LET res == DbPutTxindexPublicKeyToTxnMappingSingleWithTxn(db, publicKey, txID)
        IN  /\ WithinStoreBound(res)
            /\ db' = Commit(res)
            /\ last' = OpKind(res, "put")
            /\ UNCHANGED open
            /\ live' = LiveTxindex(res, publicKey, Append(TxindexList(publicKey), txID))

DbDeleteTxindexPublicKeyToTxnMappingSingle ==
    \E publicKey \in TxindexPubKeys, txID \in TxIDs :
        LET res == DbDeleteTxindexPublicKeyToTxnMappingSingleWithTxn(db, publicKey, txID)
            txIDs == TxindexList(publicKey)
            at == {i \in 1..Len(txIDs) : txIDs[i] = txID}
            first == CHOOSE i \in at : \A j \in at : i <= j
        IN  /\ db' = Commit(res)
            /\ last' = OpKind(res, "delete")
            /\ UNCHANGED open
            /\ live' = LiveTxindex(
                           res, publicKey,
                           IF at = {} THEN txIDs
                           ELSE SubSeq(txIDs, 1, first - 1)
                                    \o SubSeq(txIDs, first + 1, Len(txIDs)))

NextTxindex ==
    \/ DbPutTxindexPublicKeyToTxnMappingSingle
    \/ DbDeleteTxindexPublicKeyToTxnMappingSingle

SpecTxindex == Init /\ [][NextTxindex]_vars

\* C19: for every public key the keys of its list are those of the indices
\* 0..n-1, they hold the transactions put and not deleted in the order they
\* were put, and the next index, also when stored, is n.
C19_IndicesContiguousInInsertionOrder ==
    \A publicKey \in TxindexPubKeys :
        LET keys == KeysWithPrefix(db, DbTxindexPublicKeyPrefix(publicKey))
            n == Cardinality(keys)
            txIDs == TxindexList(publicKey)
            nextIndexKey == _DbTxindexPublicKeyNextIndexPrefix(publicKey)
        IN  /\ keys = {DbTxindexPublicKeyIndexToTxnKey(publicKey, index) : index \in 0..n - 1}
            /\ n = Len(txIDs)
            /\ \A index \in 0..n - 1 :
                   db[DbTxindexPublicKeyIndexToTxnKey(publicKey, index)] = txIDs[index + 1]
            /\ Has(db, nextIndexKey) => ReadUvarint(db[nextIndexKey]).val = n
            /\ _DbGetTxindexNextIndexForPublicKeyWithTxn(db, publicKey) = Uint64Ptr(n)

\* After a delete, a list holds two transactions at the indices 0 and 1 and
\* its next index is stored as 2.
C19_Witness ==
    /\ last = "delete"
    /\ \E publicKey \in TxindexPubKeys :
           LET txIDs == TxindexList(publicKey)
           IN  /\ Len(txIDs) = 2
               /\ DbGetTxindexTxnsForPublicKey(publicKey) = txIDs
               /\ Has(db, _DbTxindexPublicKeyNextIndexPrefix(publicKey))
               /\ \A other \in TxindexPubKeys \ {publicKey} : TxindexList(other) = <<>>

\* C20: deleting a transaction from a list of distinct transactions leaves
\* the list without it, the others in their order at the indices from 0 and
\* no key at the old last index; deleting a transaction that is not in the
\* list returns no error and leaves the list and the next index as they were.
C20_DeleteRenumbersTheList ==
    \A publicKey \in TxindexPubKeys, txID \in TxIDs :
        LET before == DbGetTxindexTxnsForPublicKey(publicKey)
            n == Len(before)
            res == DbDeleteTxindexPublicKeyToTxnMappingSingleWithTxn(db, publicKey, txID)
            after == DbGetTxindexTxnsForPublicKeyWithTxn(res.txn, publicKey)
            at == {i \in 1..n : before[i] = txID}
        IN  (\A i \in 1..n, j \in 1..n : before[i] = before[j] => i = j) =>
                /\ res.err = Nil
                /\ \A i \in at :
                       /\ after = SubSeq(before, 1, i - 1) \o SubSeq(before, i + 1, n)
                       /\ KeysWithPrefix(res.txn, DbTxindexPublicKeyPrefix(publicKey))
                              = {DbTxindexPublicKeyIndexToTxnKey(publicKey, index) :
                                    index \in 0..n - 2}
                       /\ ~Has(res.txn, DbTxindexPublicKeyIndexToTxnKey(publicKey, n - 1))
                /\ at = {} =>
                       /\ after = before
                       /\ _DbGetTxindexNextIndexForPublicKeyWithTxn(res.txn, publicKey)
                              = _DbGetTxindexNextIndexForPublicKeyWithTxn(db, publicKey)

\* A list of three distinct transactions, from which the delete of the
\* second leaves the first and the third.
C20_Witness ==
    \E publicKey \in TxindexPubKeys :
        LET before == DbGetTxindexTxnsForPublicKey(publicKey)
            res == DbDeleteTxindexPublicKeyToTxnMappingSingleWithTxn(db, publicKey, before[2])
        IN  /\ Len(before) = 3
            /\ Cardinality({before[i] : i \in 1..3}) = 3
            /\ DbGetTxindexTxnsForPublicKeyWithTxn(res.txn, publicKey)
                   = <<before[1], before[3]>>

DbGetTxindexNextIndexForPublicKey(publicKey) ==
    _DbGetTxindexNextIndexForPublicKeyWithTxn(db, publicKey)

\* The next index of a public key is deleted in a transaction of its own.
DbDeleteTxindexNextIndexForPublicKey ==
    \E publicKey \in TxindexPubKeys :
        LET res == DbDeleteTxindexNextIndexForPublicKeyWithTxn(db, publicKey)
        IN  /\ db' = Commit(res)
            /\ last' = OpKind(res, "delete")
            /\ UNCHANGED open
            /\ live' = live

NextNextIndex ==
    \/ DbPutTxindexPublicKeyToTxnMappingSingle
    \/ DbDeleteTxindexPublicKeyToTxnMappingSingle
    \/ DbDeleteTxindexNextIndexForPublicKey

SpecNextIndex == Init /\ [][NextNextIndex]_vars

\* C21: for every public key with n entries the reverse seek finds n, the
\* stored next index, if there is one, is n, DbGetTxindexNextIndexForPublicKey
\* returns n with and without the stored next index, and the next append
\* writes the key of index n and stores the next index n + 1.
C21_SeekAgreesWithStoredNextIndex ==
    \A publicKey \in TxindexPubKeys :
        LET n == Cardinality(KeysWithPrefix(db, DbTxindexPublicKeyPrefix(publicKey)))
            nextIndexKey == _DbTxindexPublicKeyNextIndexPrefix(publicKey)
            without == DbDeleteTxindexNextIndexForPublicKeyWithTxn(db, publicKey).txn
        IN  /\ _DbGetTxindexNextIndexForPublicKeBySeekWithTxn(db, publicKey) = n
            /\ Has(db, nextIndexKey) => ReadUvarint(db[nextIndexKey]).val = n
            /\ DbGetTxindexNextIndexForPublicKey(publicKey) = Uint64Ptr(n)
            /\ _DbGetTxindexNextIndexForPublicKeyWithTxn(without, publicKey) = Uint64Ptr(n)
            /\ \A txID \in TxIDs :
                   LET res == DbPutTxindexPublicKeyToTxnMappingSingleWithTxn(
                                  without, publicKey, txID)
                   IN  /\ res.err = Nil
                       /\ DOMAIN res.txn
                              = DOMAIN without
                                    \cup {DbTxindexPublicKeyIndexToTxnKey(publicKey, n),
                                          nextIndexKey}
                       /\ res.txn[DbTxindexPublicKeyIndexToTxnKey(publicKey, n)] = txID
                       /\ ReadUvarint(res.txn[nextIndexKey]).val = n + 1
                       /\ \A key \in DOMAIN without : res.txn[key] = without[key]

\* The stored next index of a list of two entries was just deleted.
C21_Witness ==
    /\ last = "delete"
    /\ \E publicKey \in TxindexPubKeys :
           /\ Len(DbGetTxindexTxnsForPublicKey(publicKey)) = 2
           /\ ~Has(db, _DbTxindexPublicKeyNextIndexPrefix(publicKey))
           /\ DbGetTxindexNextIndexForPublicKey(publicKey) = Uint64Ptr(2)

(***************************************************************************)
(* Txindex: <prefix, txID> -> TransactionMetadata, and the lists of the    *)
(* public keys a transaction involves.                                     *)
(***************************************************************************)
_PrefixTransactionIDToMetadata == <<15>>

\* Largest number of keys the store holds in the specifications of the
\* transaction index, where one transaction takes three keys or more.
MaxTxindexStoreKeys == 6

ErrMissingTxnMeta == "Missing txnMeta for txID"
ErrConflict == "Transaction Conflict. Please retry"

DbTxindexTxIDKey(txID) == _PrefixTransactionIDToMetadata \o txID

\* Base58CheckEncode / Base58CheckDecode of a public key: the key behind a
\* version byte; the empty string does not decode.
Base58CheckEncode(publicKey) == <<205>> \o publicKey

Base58CheckDecode(str) ==
    IF str = <<>> \/ Head(str) # 205 THEN [res |-> <<>>, err |-> ErrDecode]
    ELSE [res |-> Tail(str), err |-> Nil]

\* A TransactionMetadata, of which this file reads the transactor and the
\* affected public keys.
TransactionMetadataOf(transactor, affected) ==
    [TransactorPublicKeyBase58Check |-> transactor, AffectedPublicKeys |-> affected]

GobEncodeTransactionMetadata(txnMeta) ==
    GobEncode(15, <<txnMeta.TransactorPublicKeyBase58Check>> \o txnMeta.AffectedPublicKeys)

GobDecodeTransactionMetadata(valBytes) ==
    IF valBytes = <<>> \/ Head(valBytes) # 15 THEN NilEntry
    ELSE LET p == GobParse(Tail(valBytes))
         IN  IF ~p.ok \/ p.fields = <<>> THEN NilEntry
             ELSE TransactionMetadataOf(Head(p.fields), Tail(p.fields))

DbGetTxindexTransactionRefByTxIDWithTxn(txn, txID) ==
    LET valItem == TxnGet(txn, DbTxindexTxIDKey(txID))
    IN  IF valItem.err # Nil THEN NilEntry
        ELSE GobDecodeTransactionMetadata(valItem.val)

DbPutTxindexTransactionWithTxn(txn, txID, txnMeta) ==
    Ok(TxnSet(txn, DbTxindexTxIDKey(txID), GobEncodeTransactionMetadata(txnMeta)))

\* The public keys of the transactor and of the affected public keys that
\* decode; a set, as the keys of the map the function returns.
_getPublicKeysForTxn(txn, txnMeta) ==
    LET strs == {txnMeta.TransactorPublicKeyBase58Check}
                    \cup {txnMeta.AffectedPublicKeys[i] :
                             i \in 1..Len(txnMeta.AffectedPublicKeys)}
    IN  {Base58CheckDecode(str).res : str \in {ss \in strs : Base58CheckDecode(ss).err = Nil}}

RECURSIVE PutTxindexPublicKeysLoop(_, _, _)
\* for pkFound := range publicKeys: append txID to the list of pkFound.  The
\* lists of different public keys share no key, so the order of the range
\* does not show in the result.
PutTxindexPublicKeysLoop(dbTx, publicKeys, txID) ==
    IF publicKeys = <<>> THEN Ok(dbTx)
    ELSE LET res == DbPutTxindexPublicKeyToTxnMappingSingleWithTxn(
                        dbTx, Head(publicKeys), txID)
         IN  IF res.err # Nil THEN res
             ELSE PutTxindexPublicKeysLoop(res.txn, Tail(publicKeys), txID)

DbPutTxindexTransactionMappingsWithTxn(dbTx, txn, txnMeta) ==
    LET txID == txn.Hash
        res == DbPutTxindexTransactionWithTxn(dbTx, txID, txnMeta)
        publicKeys == _getPublicKeysForTxn(txn, txnMeta)
    IN  IF res.err # Nil THEN res
        ELSE PutTxindexPublicKeysLoop(res.txn, SortedKeys(publicKeys), txID)

RECURSIVE DeleteTxindexPublicKeysLoop(_, _, _)
\* The rest of the range once the list of one public key is rewritten: the
\* handler returns at the first error.
DeleteTxindexPublicKeysRest(res, publicKeys, txID) ==
    IF res.err # Nil THEN res
    ELSE DeleteTxindexPublicKeysLoop(res.txn, publicKeys, txID)

\* for pkFound := range publicKeys: delete txID from the list of pkFound.
DeleteTxindexPublicKeysLoop(dbTxn, publicKeys, txID) ==
    IF publicKeys = <<>> THEN Ok(dbTxn)
    ELSE DeleteTxindexPublicKeysRest(
             DbDeleteTxindexPublicKeyToTxnMappingSingleWithTxn(dbTxn, Head(publicKeys), txID),
             Tail(publicKeys), txID)

\* The end of the delete handler: the metadata goes after the lists.
DeleteTxindexMetadata(res, txID) ==
    IF res.err # Nil THEN res
    ELSE Ok(TxnDelete(res.txn, DbTxindexTxIDKey(txID)))

DbDeleteTxindexTransactionMappingsWithTxn(dbTxn, txn) ==
    LET txnMeta == DbGetTxindexTransactionRefByTxIDWithTxn(dbTxn, txn.Hash)
    IN  IF txnMeta = NilEntry THEN Fail(dbTxn, ErrMissingTxnMeta)
        ELSE DeleteTxindexMetadata(
                 DeleteTxindexPublicKeysLoop(
                     dbTxn, SortedKeys(_getPublicKeysForTxn(txn, txnMeta)), txn.Hash),
                 txn.Hash)

\* The transactions indexed, each once while its metadata is stored.
IndexedTxns == {[Hash |-> ChainHashes[i]] : i \in 1..Len(ChainHashes)}

\* Their metadata: a transactor, and no affected public key, one (which may
\* be the transactor again), or a string that does not decode.
TxnMetas ==
    {TransactionMetadataOf(Base58CheckEncode(transactor), affected) :
        transactor \in TxindexPubKeys,
        affected \in {<<>>, <<<<>>>>}
                        \cup {<<Base58CheckEncode(pk)>> : pk \in TxindexPubKeys}}

WithinTxindexStoreBound(txn) == Cardinality(DOMAIN txn) <= MaxTxindexStoreKeys

DbPutTxindexTransactionMappings ==
    \E txn \in IndexedTxns, txnMeta \in TxnMetas :
        LET res == DbPutTxindexTransactionMappingsWithTxn(db, txn, txnMeta)
        IN  /\ ~Has(db, DbTxindexTxIDKey(txn.Hash))
            /\ WithinTxindexStoreBound(res.txn)
            /\ db' = Commit(res)
            /\ last' = OpKind(res, "put")
            /\ UNCHANGED open
            /\ live' = LivePut(res, "txn", <<txn.Hash>>)

DbDeleteTxindexTransactionMappings ==
    \E txn \in IndexedTxns :
        LET res == DbDeleteTxindexTransactionMappingsWithTxn(db, txn)
        IN  /\ db' = Commit(res)
            /\ last' = OpKind(res, "delete")
            /\ UNCHANGED open
            /\ live' = LiveDelete(res, "txn", <<txn.Hash>>)

NextTxindexTxn ==
    \/ DbPutTxindexTransactionMappings
    \/ DbDeleteTxindexTransactionMappings

SpecTxindexTxn == Init /\ [][NextTxindexTxn]_vars

\* C30: deleting the mappings of a transaction whose metadata is not stored
\* returns no error and leaves the store as it is.
C30_DeleteOfUnindexedTxnIsNoop ==
    \A txn \in IndexedTxns :
        ~Has(db, DbTxindexTxIDKey(txn.Hash)) =>
            LET res == DbDeleteTxindexTransactionMappingsWithTxn(db, txn)
            IN  res.err = Nil /\ res.txn = db

(***************************************************************************)
(* Concurrent appends.  handle.Update runs its function on the snapshot    *)
(* of the store taken when it begins and commits at the end; the store     *)
(* refuses the commit, with ErrConflict, when a key the transaction has    *)
(* read was written by a transaction that committed after the snapshot.    *)
(* This file does not run the function again.  open holds, for each        *)
(* handle.Update in flight, its snapshot, its arguments and the keys       *)
(* committed by others since it began.                                     *)
(***************************************************************************)

\* A plausible bug: the next index is read outside the transaction that
\* writes it, so that the store does not see the read.
NextIndexReadKeysUntracked(txn, publicKey) == {}

\* The keys txn.Get and it.Item() are called on while the next index of
\* publicKey is read: the key of the stored next index, found or not, and
\* when it is not found the key the reverse seek comes to rest on.
NextIndexReadKeys(txn, publicKey) ==
    LET dbPrefixx == DbTxindexPublicKeyPrefix(publicKey)
        keys == IteratorKeys(txn, TRUE)
        i == IteratorSeek(keys, dbPrefixx \o <<255, 255, 255, 255>>, TRUE)
    IN  {_DbTxindexPublicKeyNextIndexPrefix(publicKey)}
            \cup IF Has(txn, _DbTxindexPublicKeyNextIndexPrefix(publicKey))
                    \/ i > Len(keys) \/ ~IsPrefixOf(dbPrefixx, keys[i])
                 THEN {}
                 ELSE {keys[i]}

\* The keys read by DbPutTxindexTransactionMappingsWithTxn: those of the
\* next index of each public key of the transaction.  The writes of the
\* handler before the read of a public key are to keys of other public keys
\* and to the metadata.
TxindexReadKeys(dbTx, txn, txnMeta) ==
    UNION {NextIndexReadKeys(dbTx, publicKey) : publicKey \in _getPublicKeysForTxn(txn, txnMeta)}

\* The keys a transaction that began on snapshot and ended as txn has set
\* or deleted.
WrittenKeys(snapshot, txn) ==
    {k \in DOMAIN snapshot \cup DOMAIN txn :
        ~(Has(snapshot, k) /\ Has(txn, k) /\ snapshot[k] = txn[k])}

\* The store after the writes of the transaction are applied to it.
ApplyWrites(store, snapshot, txn) ==
    [k \in (DOMAIN store \ WrittenKeys(snapshot, txn))
            \cup (WrittenKeys(snapshot, txn) \cap DOMAIN txn) |->
        IF k \in WrittenKeys(snapshot, txn) THEN txn[k] ELSE store[k]]

\* txn.Commit(): the function's error if it returned one, a conflict if a
\* key read is stale, and the writes otherwise.
CommitUpdate(update, res, readKeys) ==
    IF res.err # Nil THEN Fail(db, res.err)
    ELSE IF readKeys \cap update.stale # {} THEN Fail(db, ErrConflict)
    ELSE Ok(ApplyWrites(db, update.snapshot, res.txn))

\* The transactions in flight after one of them has committed res: the
\* keys it wrote are stale for the others.
OpenAfterCommit(id, res) ==
    [o \in DOMAIN open \ {id} |->
        IF res.err # Nil THEN open[o]
        ELSE [open[o] EXCEPT !.stale = @ \cup WrittenKeys(db, res.txn)]]

\* The metadata of the transactions appended concurrently: one public key,
\* or that public key and another.
ConcurrentTxnMetas ==
    {TransactionMetadataOf(Base58CheckEncode(PKIDOf(1)), affected) :
        affected \in {<<>>, <<Base58CheckEncode(PKIDOf(NumPKIDs))>>}}

\* handle.Update begins: the snapshot is taken.
DbPutTxindexTransactionMappingsBegin ==
    \E txn \in IndexedTxns, txnMeta \in ConcurrentTxnMetas :
        /\ txn.Hash \notin DOMAIN open
        /\ ~Has(db, DbTxindexTxIDKey(txn.Hash))
        /\ open' = [o \in DOMAIN open \cup {txn.Hash} |->
                       IF o = txn.Hash
                       THEN [snapshot |-> db, txn |-> txn, txnMeta |-> txnMeta, stale |-> {}]
                       ELSE open[o]]
        /\ UNCHANGED <<db, live>>
        /\ last' = "none"

LiveAppended(res, txID, publicKeys) ==
    IF res.err = Nil THEN live \cup {<<"appended", publicKey, txID>> : publicKey \in publicKeys}
    ELSE IF res.err = ErrConflict THEN live \cup {<<"conflict", txID>>}
    ELSE live

\* The function of handle.Update runs on the snapshot, and the transaction
\* commits or is refused.
DbPutTxindexTransactionMappingsEnd ==
    \E id \in DOMAIN open :
        LET update == open[id]
            res == CommitUpdate(
                       update,
                       DbPutTxindexTransactionMappingsWithTxn(
                           update.snapshot, update.txn, update.txnMeta),
                       TxindexReadKeys(update.snapshot, update.txn, update.txnMeta))
        IN  /\ WithinTxindexStoreBound(res.txn)
            /\ db' = res.txn
            /\ open' = OpenAfterCommit(id, res)
            /\ last' = OpKind(res, "put")
            /\ live' = LiveAppended(res, id,
                           _getPublicKeysForTxn(update.txn, update.txnMeta))

NextTxindexConcurrent ==
    \/ DbPutTxindexTransactionMappingsBegin
    \/ DbPutTxindexTransactionMappingsEnd

SpecTxindexConcurrent == Init /\ [][NextTxindexConcurrent]_vars

\* The transactions whose append to the list of publicKey has committed.
Appended(publicKey) ==
    {entry[3] : entry \in {e \in live : e[1] = "appended" /\ e[2] = publicKey}}

\* C22: whatever appends for the same public key run in concurrent
\* read-write transactions, the committed list has one key for each index
\* from 0 to one less than the number of committed appends, the items at
\* those keys are the transactions of the committed appends, each once, and
\* the stored next index is their number.
C22_ConcurrentAppendsKeepTheList ==
    \A publicKey \in TxindexPubKeys :
        LET txIDsInDB == DbGetTxindexTxnsForPublicKeyWithTxn(db, publicKey)
            nextIndex == TxnGet(db, _DbTxindexPublicKeyNextIndexPrefix(publicKey))
        IN  /\ KeysWithPrefix(db, DbTxindexPublicKeyPrefix(publicKey))
                   = {DbTxindexPublicKeyIndexToTxnKey(publicKey, index) :
                         index \in 0..(Cardinality(Appended(publicKey)) - 1)}
            /\ {txIDsInDB[i] : i \in 1..Len(txIDsInDB)} = Appended(publicKey)
            /\ Len(txIDsInDB) = Cardinality(Appended(publicKey))
            /\ IF Appended(publicKey) = {} THEN nextIndex.err = ErrKeyNotFound
               ELSE /\ nextIndex.err = Nil
                    /\ ReadUvarint(nextIndex.val).val = Cardinality(Appended(publicKey))

\* Two appends for the same public key have committed, and a third that ran
\* concurrently with one of them was refused.
C22_Witness ==
    /\ Cardinality(Appended(PKIDOf(1))) = 2
    /\ \E entry \in live : entry[1] = "conflict"
    /\ last = "put"

(***************************************************************************)
(* Posts: <prefix, PostHash> -> PostEntry, and the indexes of a post by    *)
(* poster and timestamp, by timestamp, by creator and stake basis points   *)
(* and by amount staked, or of a comment by its parent.                    *)
(***************************************************************************)
_PrefixPostHashToPostEntry == <<17>>
_PrefixTstampNanosPostHash == <<19>>
_PrefixCreatorBpsPostHash == <<20>>
_PrefixMultipleBpsPostHash == <<21>>
_PrefixCommentParentStakeIDToPostHash == <<22>>
_PrefixStakeIDTypeAmountStakeIDIndex == <<26>>
_PrefixPosterPublicKeyTimestampPostHash == <<35>>

ErrNoEntry == "does not have corresponding entry"

\* byte(StakeIDTypePost), a constant declared outside this file.
StakeIDTypePost == <<0>>

\* A PostEntry, with the fields this file reads; a nil RecloutedPostHash is
\* the empty sequence, and TotalStakeNanos is what GetStakeEntryStats makes
\* of the StakeEntry.
PostEntryOf(postHash, posterPublicKey, parentStakeID, timestampNanos, recloutedPostHash) ==
    [PostHash |-> postHash, PosterPublicKey |-> posterPublicKey,
     ParentStakeID |-> parentStakeID, TimestampNanos |-> timestampNanos,
     CreatorBasisPoints |-> 0, StakeMultipleBasisPoints |-> 0,
     TotalStakeNanos |-> 0, RecloutedPostHash |-> recloutedPostHash]

GobEncodePostEntry(postEntry) ==
    GobEncode(17, <<postEntry.PostHash, postEntry.PosterPublicKey, postEntry.ParentStakeID,
                    EncodeUint64(postEntry.TimestampNanos), postEntry.RecloutedPostHash>>)

GobDecodePostEntry(valBytes) ==
    LET d == GobDecode(17, 5, valBytes)
    IN  IF ~d.ok THEN NilEntry
        ELSE PostEntryOf(d.fields[1], d.fields[2], d.fields[3],
                         DecodeUint64(d.fields[4]), d.fields[5])

\* A reclout without a body of its own (the body is not modelled).
IsVanillaReclout(postEntry) == postEntry.RecloutedPostHash # <<>>

_dbKeyForPostEntryHash(postHash) == _PrefixPostHashToPostEntry \o postHash

_dbKeyForPosterPublicKeyTimestampPostHash(publicKey, timestampNanos, postHash) ==
    _PrefixPosterPublicKeyTimestampPostHash \o publicKey
        \o EncodeUint64(timestampNanos) \o postHash

\* A plausible bug: the post hash is written before the timestamp.
_dbKeyForPostHashTstamp(tstampNanos, postHash) ==
    _PrefixTstampNanosPostHash \o postHash \o EncodeUint64(tstampNanos)

_dbKeyForTstampPostHash(tstampNanos, postHash) ==
    _PrefixTstampNanosPostHash \o EncodeUint64(tstampNanos) \o postHash

_dbKeyForCreatorBpsPostHash(creatorBps, postHash) ==
    _PrefixCreatorBpsPostHash \o EncodeUint64(creatorBps) \o postHash

_dbKeyForStakeMultipleBpsPostHash(stakeMultipleBps, postHash) ==
    _PrefixMultipleBpsPostHash \o EncodeUint64(stakeMultipleBps) \o postHash

_dbKeyForCommentParentStakeIDToPostHash(stakeID, tstampNanos, postHash) ==
    _PrefixCommentParentStakeIDToPostHash \o stakeID \o EncodeUint64(tstampNanos) \o postHash

_dbGetStakeIDPostDBKey(postHash, totalAmountStakedNanos) ==
    _PrefixStakeIDTypeAmountStakeIDIndex \o StakeIDTypePost
        \o EncodeUint64(totalAmountStakedNanos) \o postHash

\* nil when the key is absent, on any other read error and when the value
\* does not decode.
DBGetPostEntryByPostHashWithTxn(txn, postHash) ==
    LET postEntryItem == TxnGet(txn, _dbKeyForPostEntryHash(postHash))
    IN  IF postEntryItem.err # Nil THEN NilEntry
        ELSE GobDecodePostEntry(postEntryItem.val)

\* db.View: a read-only transaction of its own.
DBGetPostEntryByPostHash(postHash) == DBGetPostEntryByPostHashWithTxn(db, postHash)

\* The index keys of a post that is not a comment.
PostIndexKeys(postEntry) ==
    {_dbKeyForPosterPublicKeyTimestampPostHash(
         postEntry.PosterPublicKey, postEntry.TimestampNanos, postEntry.PostHash),
     _dbKeyForTstampPostHash(postEntry.TimestampNanos, postEntry.PostHash),
     _dbKeyForCreatorBpsPostHash(postEntry.CreatorBasisPoints, postEntry.PostHash),
     _dbKeyForStakeMultipleBpsPostHash(postEntry.StakeMultipleBasisPoints, postEntry.PostHash),
     _dbGetStakeIDPostDBKey(postEntry.PostHash, postEntry.TotalStakeNanos)}

\* txn.Set of each of keys, with an empty value.
TxnSetAll(txn, keys) ==
    [k \in DOMAIN txn \cup keys |-> IF k \in keys THEN <<>> ELSE txn[k]]

\* txn.Delete of each of keys.
TxnDeleteAll(txn, keys) == [k \in DOMAIN txn \ keys |-> txn[k]]

\* The reclout mapping of a vanilla reclout.
PutRecloutOfPost(txn, postEntry) ==
    IF IsVanillaReclout(postEntry)
    THEN TxnSet(txn,
                _dbKeyForReclouterPubKeyRecloutedPostHashToRecloutPostHash(
                    postEntry.PosterPublicKey, postEntry.RecloutedPostHash),
                GobEncodeRecloutEntry(RecloutEntryOf(
                    postEntry.PosterPublicKey, postEntry.RecloutedPostHash,
                    postEntry.PostHash)))
    ELSE txn

DBPutPostEntryMappingsWithTxn(txn, postEntry) ==
    LET t1 == TxnSet(txn, _dbKeyForPostEntryHash(postEntry.PostHash),
                     GobEncodePostEntry(postEntry))
        isComment == Len(postEntry.ParentStakeID) # 0
        extendedStakeID ==
            IF Len(postEntry.ParentStakeID) = HashSizeBytes
            THEN postEntry.ParentStakeID \o <<0>> ELSE postEntry.ParentStakeID
    IN  IF isComment
        THEN IF Len(extendedStakeID) # PubKeyBytesLenCompressed THEN Fail(txn, ErrLength)
             ELSE Ok(PutRecloutOfPost(
                         TxnSet(t1, _dbKeyForCommentParentStakeIDToPostHash(
                                        extendedStakeID, postEntry.TimestampNanos,
                                        postEntry.PostHash), <<>>),
                         postEntry))
        ELSE Ok(PutRecloutOfPost(TxnSetAll(t1, PostIndexKeys(postEntry)), postEntry))

\* The deletes after the post's own key, given the entry that was stored.
DeletePostIndexes(txn, postEntry) ==
    IF Len(postEntry.ParentStakeID) = HashSizeBytes
    THEN TxnDelete(txn, _dbKeyForCommentParentStakeIDToPostHash(
                            postEntry.ParentStakeID \o <<0>>, postEntry.TimestampNanos,
                            postEntry.PostHash))
    ELSE TxnDeleteAll(txn,
             PostIndexKeys(postEntry)
                 \cup IF IsVanillaReclout(postEntry)
                      THEN {_dbKeyForReclouterPubKeyRecloutedPostHashToRecloutPostHash(
                                postEntry.PosterPublicKey, postEntry.RecloutedPostHash)}
                      ELSE {})

DBDeletePostEntryMappingsWithTxn(txn, postHash) ==
    IF DBGetPostEntryByPostHashWithTxn(txn, postHash) = NilEntry THEN Ok(txn)
    ELSE Ok(DeletePostIndexes(TxnDelete(txn, _dbKeyForPostEntryHash(postHash)),
                              DBGetPostEntryByPostHashWithTxn(txn, postHash)))

\* The post hashes and timestamps cut out of the keys of the timestamp index.
PostHashesOfKeys(postIndexKeys) ==
    [i \in 1..Len(postIndexKeys) |->
        SubSeq(postIndexKeys[i], Len(_PrefixTstampNanosPostHash) + 8 + 1,
               Len(_PrefixTstampNanosPostHash) + 8 + HashSizeBytes)]

\* The first part of DBGetAllPostsByTstamp: the reverse scan of the
\* timestamp index in one read-only transaction, which fails on a key of
\* another length.
DBGetAllPostsByTstampScan(txn) ==
    ScanLoop(txn, IteratorKeys(txn, TRUE),
             IteratorSeek(IteratorKeys(txn, TRUE),
                          _PrefixTstampNanosPostHash
                              \o <<255, 255, 255, 255, 255, 255, 255, 255>>,
                          TRUE),
             _PrefixTstampNanosPostHash,
             Len(_PrefixTstampNanosPostHash) + 8 + HashSizeBytes, 0, FALSE, <<>>, <<>>)

\* The first part of DBGetPaginatedPostsOrderedByTime: the scan.
DBGetPaginatedPostsOrderedByTimeScan(startPostTimestampNanos, startPostHash, numToFetch, reverse) ==
    DBGetPaginatedKeysAndValuesForPrefix(
        _PrefixTstampNanosPostHash
            \o (IF startPostTimestampNanos > 0 THEN EncodeUint64(startPostTimestampNanos)
                ELSE <<>>)
            \o startPostHash,
        _PrefixTstampNanosPostHash, Len(_PrefixTstampNanosPostHash) + 8 + HashSizeBytes,
        numToFetch, reverse, FALSE)

\* The posts of the stores queried: posts of one poster, a comment on the
\* first post and a reclout of it.
PostHashes == {BlockHashOf(1), MaxBlockHash}

PostEntries ==
    {PostEntryOf(postHash, PKIDOf(1), <<>>, tstampNanos, <<>>) :
        postHash \in PostHashes, tstampNanos \in Tstamps}
    \cup {PostEntryOf(MaxBlockHash, PKIDOf(1), BlockHashOf(1), 1, <<>>),
          PostEntryOf(MaxBlockHash, PKIDOf(1), <<>>, 1, BlockHashOf(1))}

\* A post is put when no post of its hash is stored, so that every
\* committed store has the entry of every key of its indexes.
DBPutPostEntryMappings ==
    \E postEntry \in PostEntries :
        LET res == DBPutPostEntryMappingsWithTxn(db, postEntry)
        IN  /\ DBGetPostEntryByPostHash(postEntry.PostHash) = NilEntry
            /\ db' = Commit(res)
            /\ last' = OpKind(res, "put")
            /\ UNCHANGED <<live, open>>

DBDeletePostEntryMappings ==
    \E postHash \in PostHashes :
        LET res == DBDeletePostEntryMappingsWithTxn(db, postHash)
        IN  /\ db' = Commit(res)
            /\ last' = OpKind(res, "delete")
            /\ UNCHANGED <<live, open>>

\* A query in flight after its scan: the post hashes found and the number
\* of entries fetched so far.
QueryAfterScan(name, scan) ==
    [o \in DOMAIN open \cup {name} |->
        IF o = name THEN [postHashes |-> PostHashesOfKeys(scan.keysFound), fetched |-> 0]
        ELSE open[o]]

\* The scan of DBGetAllPostsByTstamp, fetchEntries = true.
DBGetAllPostsByTstampBegin ==
    /\ "DBGetAllPostsByTstamp" \notin DOMAIN open
    /\ DBGetAllPostsByTstampScan(db).err = Nil
    /\ open' = QueryAfterScan("DBGetAllPostsByTstamp", DBGetAllPostsByTstampScan(db))
    /\ last' = "none"
    /\ UNCHANGED <<db, live>>

\* The scan of DBGetPaginatedPostsOrderedByTime, fetchPostEntries = true.
DBGetPaginatedPostsOrderedByTimeBegin ==
    \E startPostTimestampNanos \in {0, 1}, reverse \in BOOLEAN :
        LET scan == DBGetPaginatedPostsOrderedByTimeScan(
                        startPostTimestampNanos, <<>>, MaxNumToFetch, reverse)
        IN  /\ "DBGetPaginatedPostsOrderedByTime" \notin DOMAIN open
            /\ scan.err = Nil
            /\ open' = QueryAfterScan("DBGetPaginatedPostsOrderedByTime", scan)
            /\ last' = "none"
            /\ UNCHANGED <<db, live>>

\* One turn of the loop that fetches the entries, each in a read-only
\* transaction of its own, and the return after the last: the query fails
\* when a post hash of the scan has no entry.
FetchPostEntry(name) ==
    /\ IF open[name].fetched = Len(open[name].postHashes)
       THEN /\ open' = [o \in DOMAIN open \ {name} |-> open[o]]
            /\ last' = "none"
            /\ UNCHANGED live
       ELSE IF DBGetPostEntryByPostHash(open[name].postHashes[open[name].fetched + 1]) = NilEntry
       THEN /\ open' = [o \in DOMAIN open \ {name} |-> open[o]]
            /\ last' = "failed"
            /\ live' = live \cup {<<ErrNoEntry, name>>}
       ELSE /\ open' = [open EXCEPT ![name].fetched = @ + 1]
            /\ last' = "none"
            /\ UNCHANGED live
    /\ UNCHANGED db

DBGetAllPostsByTstampFetch ==
    /\ "DBGetAllPostsByTstamp" \in DOMAIN open
    /\ FetchPostEntry("DBGetAllPostsByTstamp")

DBGetPaginatedPostsOrderedByTimeFetch ==
    /\ "DBGetPaginatedPostsOrderedByTime" \in DOMAIN open
    /\ FetchPostEntry("DBGetPaginatedPostsOrderedByTime")

NextPostQueries ==
    \/ DBPutPostEntryMappings
    \/ DBDeletePostEntryMappings
    \/ DBGetAllPostsByTstampBegin
    \/ DBGetAllPostsByTstampFetch
    \/ DBGetPaginatedPostsOrderedByTimeBegin
    \/ DBGetPaginatedPostsOrderedByTimeFetch

SpecPostQueries == Init /\ [][NextPostQueries]_vars

\* Every key of the timestamp index has its entry in every committed store.
PostIndexIsConsistent ==
    \A key \in KeysWithPrefix(db, _PrefixTstampNanosPostHash) :
        DBGetPostEntryByPostHash(PostHashesOfKeys(<<key>>)[1]) # NilEntry

\* C23: a query that fetches the entries of the posts it has scanned never
\* fails for want of an entry while posts are put and deleted.
C23_QueriesNeverMissAnEntry ==
    /\ PostIndexIsConsistent
    /\ \A entry \in live : entry[1] # ErrNoEntry

(***************************************************************************)
(* PKIDs: <prefix, public key> -> PKIDEntry                                *)
(*        <prefix, PKID> -> public key                                     *)
(***************************************************************************)
_PrefixPublicKeyToPKID == <<36>>
_PrefixPKIDToPublicKey == <<37>>

\* copy(pkid[:], publicKey) into a PKID, an array of
\* PubKeyBytesLenCompressed bytes: a shorter public key is followed by
\* zeroes and a longer one is cut; nil for the empty public key.
PublicKeyToPKID(publicKey) ==
    IF Len(publicKey) = 0 THEN NilEntry
    ELSE [i \in 1..PubKeyBytesLenCompressed |->
             IF i <= Len(publicKey) THEN publicKey[i] ELSE 0]

PKIDEntryOf(pkid, publicKey) == [PKID |-> pkid, PublicKey |-> publicKey]

GobEncodePKIDEntry(pkidEntry) == GobEncode(36, <<pkidEntry.PKID, pkidEntry.PublicKey>>)

GobDecodePKIDEntry(valBytes) ==
    LET d == GobDecode(36, 2, valBytes)
    IN  IF ~d.ok THEN NilEntry ELSE PKIDEntryOf(d.fields[1], d.fields[2])

DBGetPKIDEntryForPublicKeyWithTxn(txn, publicKey) ==
    LET pkidItem == TxnGet(txn, _PrefixPublicKeyToPKID \o publicKey)
    IN  IF Len(publicKey) = 0 THEN NilEntry
        ELSE IF pkidItem.err # Nil
        THEN PKIDEntryOf(PublicKeyToPKID(publicKey), publicKey)
        ELSE GobDecodePKIDEntry(pkidItem.val)

DBGetPKIDEntryForPublicKey(publicKey) == DBGetPKIDEntryForPublicKeyWithTxn(db, publicKey)

DBGetPublicKeyForPKIDWithTxn(txn, pkidd) ==
    LET pkidItem == TxnGet(txn, _PrefixPKIDToPublicKey \o pkidd)
    IN  IF pkidItem.err # Nil THEN pkidd ELSE pkidItem.val

DBGetPublicKeyForPKID(pkidd) == DBGetPublicKeyForPKIDWithTxn(db, pkidd)

DBPutPKIDMappingsWithTxn(txn, publicKey, pkidEntry) ==
    Ok(TxnSet(TxnSet(txn, _PrefixPublicKeyToPKID \o publicKey, GobEncodePKIDEntry(pkidEntry)),
              _PrefixPKIDToPublicKey \o pkidEntry.PKID, publicKey))

\* A plausible bug: the mapping from the PKID to the public key stays.
DBDeletePKIDMappingsForwardOnly(txn, publicKey) ==
    Ok(TxnDelete(txn, _PrefixPublicKeyToPKID \o publicKey))

DBDeletePKIDMappingsWithTxn(txn, publicKey) ==
    Ok(TxnDelete(TxnDelete(txn, _PrefixPublicKeyToPKID \o publicKey),
                 _PrefixPKIDToPublicKey
                     \o DBGetPKIDEntryForPublicKeyWithTxn(txn, publicKey).PKID))

\* The caller's transaction commits a put of the mapping of a public key.
PutPKIDMappings ==
    \E publicKey \in PubKeys, pkid \in PKIDs :
        LET res == DBPutPKIDMappingsWithTxn(db, publicKey, PKIDEntryOf(pkid, publicKey))
        IN  /\ WithinStoreBound(res)
            /\ db' = Commit(res)
            /\ last' = OpKind(res, "put")
            /\ live' = {<<"pkid", publicKey, pkid>>}
            /\ UNCHANGED open

\* The caller's transaction commits a delete of the mapping of a public key;
\* the history keeps the PKID the public key resolved to.
DeletePKIDMappings ==
    \E publicKey \in PubKeys :
        LET res == DBDeletePKIDMappingsWithTxn(db, publicKey)
        IN  /\ db' = Commit(res)
            /\ last' = OpKind(res, "delete")
            /\ live' = {<<"pkid", publicKey, DBGetPKIDEntryForPublicKey(publicKey).PKID>>}
            /\ UNCHANGED open

NextPKID ==
    \/ PutPKIDMappings
    \/ DeletePKIDMappings

SpecPKID == Init /\ [][NextPKID]_vars

\* C24: a public key with no stored mapping resolves to itself as a PKID
\* (copied into a PKID, which for a public key of full length is the public
\* key), and a PKID with no stored mapping to itself as a public key; after
\* a put of (pk, entry) pk resolves to entry.PKID and entry.PKID to pk;
\* after a delete of pk, pk and the PKID it resolved to resolve to
\* themselves again.
C24_IdentityResolution ==
    /\ \A publicKey \in PubKeys :
           ~Has(db, _PrefixPublicKeyToPKID \o publicKey) =>
               /\ DBGetPKIDEntryForPublicKey(publicKey).PKID = PublicKeyToPKID(publicKey)
               /\ Len(publicKey) = PubKeyBytesLenCompressed =>
                      DBGetPKIDEntryForPublicKey(publicKey).PKID = publicKey
    /\ \A pkidd \in PKIDs :
           ~Has(db, _PrefixPKIDToPublicKey \o pkidd) => DBGetPublicKeyForPKID(pkidd) = pkidd
    /\ \A entry \in live :
           /\ last = "put" =>
                  /\ DBGetPKIDEntryForPublicKey(entry[2]).PKID = entry[3]
                  /\ DBGetPublicKeyForPKID(entry[3]) = entry[2]
           /\ last \in {"delete", "noop"} =>
                  /\ DBGetPKIDEntryForPublicKey(entry[2]).PKID = PublicKeyToPKID(entry[2])
                  /\ DBGetPublicKeyForPKID(entry[3]) = entry[3]

\* A public key mapped to a PKID other than itself has had its mapping
\* deleted while another mapping is stored.
C24_Witness ==
    /\ last = "delete"
    /\ \E entry \in live : entry[3] # PublicKeyToPKID(entry[2])
    /\ \E publicKey \in PubKeys : Has(db, _PrefixPublicKeyToPKID \o publicKey)

(***************************************************************************)
(* Sort keys: a number in big-endian bytes, then an id of fixed width.     *)
(***************************************************************************)
_PrefixCreatorBitCloutLockedNanosCreatorPKID == <<32>>

\* Largest number of keys of a table compared with each other.
MaxEncodedKeys == 2

_dbKeyForCreatorBitCloutLockedNanosCreatorPKID(bitCloutLockedNanos, pkid) ==
    _PrefixCreatorBitCloutLockedNanosCreatorPKID \o EncodeUint64(bitCloutLockedNanos) \o pkid

\* The numbers encoded: on both sides of each byte of a uint32, up to the
\* largest number the model checker holds.
EncodedNums == {0, 255, 256, 65536, 16777216, 2147483647}

\* The ids that follow them in a key.
EncodedHashes == {ZeroBlockHash, BlockHashOf(1), MaxBlockHash}

\* A chain node, a post and a profile are stored under their sort keys.
PutSortKeys ==
    \E num \in EncodedNums, hash \in EncodedHashes, pkid \in ScanPKIDs :
        /\ Cardinality(live) < MaxEncodedKeys
        /\ db' = TxnSetAll(db, {_heightHashToNodeIndexKey(num, hash, FALSE),
                                _dbKeyForTstampPostHash(num, hash),
                                _dbKeyForCreatorBitCloutLockedNanosCreatorPKID(num, pkid)})
        /\ live' = live \cup {<<"sort", num, hash, pkid>>}
        /\ last' = "put"
        /\ UNCHANGED open

\* They are taken out again.
DeleteSortKeys ==
    \E entry \in live :
        /\ db' = TxnDeleteAll(db, {_heightHashToNodeIndexKey(entry[2], entry[3], FALSE),
                                   _dbKeyForTstampPostHash(entry[2], entry[3]),
                                   _dbKeyForCreatorBitCloutLockedNanosCreatorPKID(
                                       entry[2], entry[4])} \ 
                                  UNION {{_heightHashToNodeIndexKey(o[2], o[3], FALSE),
                                          _dbKeyForTstampPostHash(o[2], o[3]),
                                          _dbKeyForCreatorBitCloutLockedNanosCreatorPKID(
                                              o[2], o[4])} : o \in live \ {entry}})
        /\ live' = live \ {entry}
        /\ last' = "delete"
        /\ UNCHANGED open

NextSortKeys ==
    \/ PutSortKeys
    \/ DeleteSortKeys

SpecSortKeys == Init /\ [][NextSortKeys]_vars

\* (n1, id1) is before (n2, id2).
PairLess(n1, id1, n2, id2) == n1 < n2 \/ (n1 = n2 /\ BytesLess(id1, id2))

\* key1 and key2, built from (n1, id1) and (n2, id2), compare as the pairs.
OrderedAsPairs(key1, key2, n1, id1, n2, id2) ==
    /\ BytesLess(key1, key2) <=> PairLess(n1, id1, n2, id2)
    /\ key1 = key2 <=> (n1 = n2 /\ id1 = id2)

\* C25: the big-endian bytes of two numbers compare as the numbers and
\* decode to them, and the keys of chain nodes, of posts by timestamp and of
\* profiles by locked nanos compare as their (number, id) pairs, different
\* pairs giving different keys.
C25_KeysOrderAsTheirFields ==
    \A p \in live, q \in live :
        /\ DecodeUint32(_EncodeUint32(p[2])) = p[2]
        /\ DecodeUint64(EncodeUint64(p[2])) = p[2]
        /\ p[2] < q[2] => /\ BytesLess(_EncodeUint32(p[2]), _EncodeUint32(q[2]))
                          /\ BytesLess(EncodeUint64(p[2]), EncodeUint64(q[2]))
        /\ OrderedAsPairs(_heightHashToNodeIndexKey(p[2], p[3], FALSE),
                          _heightHashToNodeIndexKey(q[2], q[3], FALSE),
                          p[2], p[3], q[2], q[3])
        /\ OrderedAsPairs(_dbKeyForTstampPostHash(p[2], p[3]),
                          _dbKeyForTstampPostHash(q[2], q[3]),
                          p[2], p[3], q[2], q[3])
        /\ OrderedAsPairs(_dbKeyForCreatorBitCloutLockedNanosCreatorPKID(p[2], p[4]),
                          _dbKeyForCreatorBitCloutLockedNanosCreatorPKID(q[2], q[4]),
                          p[2], p[4], q[2], q[4])
        /\ {_heightHashToNodeIndexKey(p[2], p[3], FALSE),
            _dbKeyForTstampPostHash(p[2], p[3]),
            _dbKeyForCreatorBitCloutLockedNanosCreatorPKID(p[2], p[4])} \subseteq DOMAIN db

\* The keys of 255 with the largest hash and of 256 with the smallest are
\* stored: the numbers and the ids are in opposite orders.
C25_Witness ==
    /\ <<"sort", 255, MaxBlockHash, PKIDOf(NumPKIDs)>> \in live
    /\ <<"sort", 256, ZeroBlockHash, PKIDOf(1)>> \in live
    /\ Cardinality(DOMAIN db) = 6

(***************************************************************************)
(* The table registry: the selectors of the var block, in the order they   *)
(* are declared.                                                           *)
(***************************************************************************)
TableRegistry ==
    <<
      [name |-> "_PrefixBlockHashToBlock", prefix |-> <<0>>],
      [name |-> "_PrefixHeightHashToNodeInfo", prefix |-> _PrefixHeightHashToNodeInfo],
      [name |-> "_PrefixBitcoinHeightHashToNodeInfo", prefix |-> _PrefixBitcoinHeightHashToNodeInfo],
      [name |-> "_KeyBestBitCloutBlockHash", prefix |-> <<3>>],
      [name |-> "_KeyBestBitcoinHeaderHash", prefix |-> <<4>>],
      [name |-> "_PrefixUtxoKeyToUtxoEntry", prefix |-> _PrefixUtxoKeyToUtxoEntry],
      [name |-> "_PrefixPubKeyUtxoKey", prefix |-> _PrefixPubKeyUtxoKey],
      [name |-> "_KeyUtxoNumEntries", prefix |-> _KeyUtxoNumEntries],
      [name |-> "_PrefixBlockHashToUtxoOperations", prefix |-> _PrefixBlockHashToUtxoOperations],
      [name |-> "_KeyNanosPurchased", prefix |-> <<10>>],
      [name |-> "_KeyUSDCentsPerBitcoinExchangeRate", prefix |-> <<27>>],
      [name |-> "_KeyGlobalParams", prefix |-> <<40>>],
      [name |-> "_PrefixBitcoinBurnTxIDs", prefix |-> <<11>>],
      [name |-> "_PrefixPublicKeyTimestampToPrivateMessage", prefix |-> _PrefixPublicKeyTimestampToPrivateMessage],
      [name |-> "_KeyTransactionIndexTip", prefix |-> <<14>>],
      [name |-> "_PrefixTransactionIDToMetadata", prefix |-> _PrefixTransactionIDToMetadata],
      [name |-> "_PrefixPublicKeyIndexToTransactionIDs", prefix |-> _PrefixPublicKeyIndexToTransactionIDs],
      [name |-> "_PrefixPublicKeyToNextIndex", prefix |-> _PrefixPublicKeyToNextIndex],
      [name |-> "_PrefixPostHashToPostEntry", prefix |-> _PrefixPostHashToPostEntry],
      [name |-> "_PrefixPosterPublicKeyPostHash", prefix |-> <<18>>],
      [name |-> "_PrefixTstampNanosPostHash", prefix |-> _PrefixTstampNanosPostHash],
      [name |-> "_PrefixCreatorBpsPostHash", prefix |-> _PrefixCreatorBpsPostHash],
      [name |-> "_PrefixMultipleBpsPostHash", prefix |-> _PrefixMultipleBpsPostHash],
      [name |-> "_PrefixCommentParentStakeIDToPostHash", prefix |-> _PrefixCommentParentStakeIDToPostHash],
      [name |-> "_PrefixPKIDToProfileEntry", prefix |-> <<23>>],
      [name |-> "_PrefixProfileUsernameToPKID", prefix |-> <<25>>],
      [name |-> "_PrefixCreatorBitCloutLockedNanosCreatorPKID", prefix |-> _PrefixCreatorBitCloutLockedNanosCreatorPKID],
      [name |-> "_PrefixStakeIDTypeAmountStakeIDIndex", prefix |-> _PrefixStakeIDTypeAmountStakeIDIndex],
      [name |-> "_PrefixFollowerPKIDToFollowedPKID", prefix |-> _PrefixFollowerPKIDToFollowedPKID],
      [name |-> "_PrefixFollowedPKIDToFollowerPKID", prefix |-> _PrefixFollowedPKIDToFollowerPKID],
      [name |-> "_PrefixLikerPubKeyToLikedPostHash", prefix |-> _PrefixLikerPubKeyToLikedPostHash],
      [name |-> "_PrefixLikedPostHashToLikerPubKey", prefix |-> _PrefixLikedPostHashToLikerPubKey],
      [name |-> "_PrefixHODLerPKIDCreatorPKIDToBalanceEntry", prefix |-> _PrefixHODLerPKIDCreatorPKIDToBalanceEntry],
      [name |-> "_PrefixCreatorPKIDHODLerPKIDToBalanceEntry", prefix |-> _PrefixCreatorPKIDHODLerPKIDToBalanceEntry],
      [name |-> "_PrefixPosterPublicKeyTimestampPostHash", prefix |-> _PrefixPosterPublicKeyTimestampPostHash],
      [name |-> "_PrefixPublicKeyToPKID", prefix |-> _PrefixPublicKeyToPKID],
      [name |-> "_PrefixPKIDToPublicKey", prefix |-> _PrefixPKIDToPublicKey],
      [name |-> "_PrefixMempoolTxnHashToMsgBitCloutTxn", prefix |-> <<38>>],
      [name |-> "_PrefixReclouterPubKeyRecloutedPostHashToRecloutPostHash", prefix |-> _PrefixReclouterPubKeyRecloutedPostHashToRecloutPostHash],
      [name |-> "_PrefixDiamondReceiverPKIDDiamondSenderPKIDPostHash", prefix |-> _PrefixDiamondReceiverPKIDDiamondSenderPKIDPostHash],
      [name |-> "_PrefixDiamondSenderPKIDDiamondReciverPKIDPostHash", prefix |-> _PrefixDiamondSenderPKIDDiamondReciverPKIDPostHash],
      [name |-> "_PrefixForbiddenBlockSignaturePubKeys", prefix |-> <<44>>]
    >>

\* The tables a key belongs to: those whose selector it starts with.
TablesOf(key) == {i \in 1..Len(TableRegistry) : IsPrefixOf(TableRegistry[i].prefix, key)}

\* C26: no two selectors of the registry are equal and none is the beginning
\* of another, so that every key of the store is in exactly one table and
\* the keys under the selector of a table are the keys of that table alone.
C26_SelectorsAreDisjoint ==
    /\ \A i \in 1..Len(TableRegistry), j \in 1..Len(TableRegistry) :
           i # j => ~IsPrefixOf(TableRegistry[i].prefix, TableRegistry[j].prefix)
    /\ \A key \in DOMAIN db : Cardinality(TablesOf(key)) = 1
    /\ \A i \in 1..Len(TableRegistry) :
           KeysWithPrefix(db, TableRegistry[i].prefix) = {key \in DOMAIN db : TablesOf(key) = {i}}

\* The store holds the metadata of a transaction, the list of one of its
\* public keys and the next index of another: keys of three tables.
C26_Witness ==
    /\ Cardinality(UNION {TablesOf(key) : key \in DOMAIN db}) = 3
    /\ \E publicKey \in TxindexPubKeys : \E other \in TxindexPubKeys \ {publicKey} :
           /\ KeysWithPrefix(db, DbTxindexPublicKeyPrefix(publicKey)) # {}
           /\ Has(db, _DbTxindexPublicKeyNextIndexPrefix(other))

(***************************************************************************)
(* List queries on the enumeration of a prefix, in a store whose reads of  *)
(* a value may fail: unreadable is the set of keys whose value the store   *)
(* cannot read at the time of the call.                                    *)
(***************************************************************************)
ErrValueRead == "value read failed"

RECURSIVE EnumerateLoop(_, _, _, _, _)
\* The loop of _enumerateKeysForPrefixWithTxn over the keys under the
\* prefix: it returns nil lists and the error at the first value it cannot
\* copy.
EnumerateLoop(dbTxn, keys, unreadable, keysFound, valsFound) ==
    IF keys = <<>> THEN [keysFound |-> keysFound, valsFound |-> valsFound, err |-> Nil]
    ELSE IF Head(keys) \in unreadable
    THEN [keysFound |-> <<>>, valsFound |-> <<>>, err |-> ErrValueRead]
    ELSE EnumerateLoop(dbTxn, Tail(keys), unreadable,
                       Append(keysFound, Head(keys)), Append(valsFound, dbTxn[Head(keys)]))

\* _enumerateKeysForPrefix: the error of the read-only transaction is
\* logged, and nil lists are returned without it.
_enumerateKeysForPrefix(dbPrefix, unreadable) ==
    [keysFound |-> EnumerateLoop(db, SortedKeys(KeysWithPrefix(db, dbPrefix)),
                                 unreadable, <<>>, <<>>).keysFound,
     valsFound |-> EnumerateLoop(db, SortedKeys(KeysWithPrefix(db, dbPrefix)),
                                 unreadable, <<>>, <<>>).valsFound]

_dbSeekPrefixForPostHashesYouLike(yourPubKey) ==
    _PrefixLikerPubKeyToLikedPostHash \o yourPubKey

_dbSeekPrefixForLikerPubKeysLikingAPostHash(likedPostHash) ==
    _PrefixLikedPostHashToLikerPubKey \o likedPostHash

_dbSeekPrefixForPKIDsYouFollow(yourPKID) == _PrefixFollowerPKIDToFollowedPKID \o yourPKID

_dbSeekPrefixForPKIDsFollowingYou(yourPKID) == _PrefixFollowedPKIDToFollowerPKID \o yourPKID

\* The result of a list query.
ListResult(items, err) == [items |-> items, err |-> err]

\* keyBytes[n:] of each key found.
KeysFrom(keysFound, n) ==
    [i \in 1..Len(keysFound) |-> SubSeq(keysFound[i], n + 1, Len(keysFound[i]))]

DbGetPostHashesYouLike(yourPublicKey, unreadable) ==
    ListResult(
        [i \in 1..Len(_enumerateKeysForPrefix(
                          _dbSeekPrefixForPostHashesYouLike(yourPublicKey), unreadable).keysFound) |->
            CopyToBlockHash(KeysFrom(
                _enumerateKeysForPrefix(
                    _dbSeekPrefixForPostHashesYouLike(yourPublicKey), unreadable).keysFound,
                1 + PubKeyBytesLenCompressed)[i])],
        Nil)

DbGetLikerPubKeysLikingAPostHash(likedPostHash, unreadable) ==
    ListResult(
        KeysFrom(_enumerateKeysForPrefix(
                     _dbSeekPrefixForLikerPubKeysLikingAPostHash(likedPostHash),
                     unreadable).keysFound,
                 1 + HashSizeBytes),
        Nil)

DbGetPKIDsYouFollow(yourPKID, unreadable) ==
    ListResult(
        KeysFrom(_enumerateKeysForPrefix(
                     _dbSeekPrefixForPKIDsYouFollow(yourPKID), unreadable).keysFound,
                 1 + PubKeyBytesLenCompressed),
        Nil)

DbGetPKIDsFollowingYou(yourPKID, unreadable) ==
    ListResult(
        KeysFrom(_enumerateKeysForPrefix(
                     _dbSeekPrefixForPKIDsFollowingYou(yourPKID), unreadable).keysFound,
                 1 + PubKeyBytesLenCompressed),
        Nil)

\* What a list query did: it returned an error, it returned a list although
\* a value under dbPrefix could not be read, or it returned the list.
QueryKind(res, dbPrefix, unreadable) ==
    IF res.err # Nil THEN "failed"
    ELSE IF KeysWithPrefix(db, dbPrefix) \cap unreadable # {} THEN "read failure dropped"
    ELSE "none"

GetPostHashesYouLike ==
    \E yourPublicKey \in PKIDs, unreadable \in SUBSET DOMAIN db :
        /\ last' = QueryKind(DbGetPostHashesYouLike(yourPublicKey, unreadable),
                             _dbSeekPrefixForPostHashesYouLike(yourPublicKey), unreadable)
        /\ UNCHANGED <<db, live, open>>

GetLikerPubKeysLikingAPostHash ==
    \E likedPostHash \in BlockHashes, unreadable \in SUBSET DOMAIN db :
        /\ last' = QueryKind(DbGetLikerPubKeysLikingAPostHash(likedPostHash, unreadable),
                             _dbSeekPrefixForLikerPubKeysLikingAPostHash(likedPostHash),
                             unreadable)
        /\ UNCHANGED <<db, live, open>>

GetPKIDsYouFollow ==
    \E yourPKID \in PKIDs, unreadable \in SUBSET DOMAIN db :
        /\ last' = QueryKind(DbGetPKIDsYouFollow(yourPKID, unreadable),
                             _dbSeekPrefixForPKIDsYouFollow(yourPKID), unreadable)
        /\ UNCHANGED <<db, live, open>>

GetPKIDsFollowingYou ==
    \E yourPKID \in PKIDs, unreadable \in SUBSET DOMAIN db :
        /\ last' = QueryKind(DbGetPKIDsFollowingYou(yourPKID, unreadable),
                             _dbSeekPrefixForPKIDsFollowingYou(yourPKID), unreadable)
        /\ UNCHANGED <<db, live, open>>

NextListQueries ==
    \/ DbPutFollowMappings
    \/ DbDeleteFollowMappings
    \/ DbPutLikeMappings
    \/ DbDeleteLikeMappings
    \/ GetPostHashesYouLike
    \/ GetLikerPubKeysLikingAPostHash
    \/ GetPKIDsYouFollow
    \/ GetPKIDsFollowingYou

SpecListQueries == Init /\ [][NextListQueries]_vars

\* C27: a list query returns an error when the value of a key under its
\* prefix cannot be read.
C27_ReadFailureIsReturned == last # "read failure dropped"

(***************************************************************************)
(* Reads that fail for another reason than the absence of the key: the     *)
(* store cannot read the keys of unreadable at the time of the call.       *)
(***************************************************************************)
ErrRead == "read failed"

\* txn.Get(key) in such a store.
TxnGetUnreadable(txn, key, unreadable) ==
    IF key \in unreadable THEN [err |-> ErrRead, val |-> <<>>] ELSE TxnGet(txn, key)

\* DbGetFollowerToFollowedMappingWithTxn: nil on any error of txn.Get.
DbGetFollowerToFollowedMappingUnreadable(txn, followerPKID, followedPKID, unreadable) ==
    TxnGetUnreadable(txn, _dbKeyForFollowerToFollowedMapping(followerPKID, followedPKID),
                     unreadable).err = Nil

\* DbDeleteFollowMappingsWithTxn: nothing to do when the getter returns nil.
DbDeleteFollowMappingsUnreadable(txn, followerPKID, followedPKID, unreadable) ==
    IF ~DbGetFollowerToFollowedMappingUnreadable(txn, followerPKID, followedPKID, unreadable)
    THEN Ok(txn)
    ELSE DbDeleteFollowMappingsWithTxn(txn, followerPKID, followedPKID)

\* DBGetPKIDEntryForPublicKeyWithTxn: the public key as its own PKID on any
\* error of txn.Get.
DBGetPKIDEntryForPublicKeyUnreadable(txn, publicKey, unreadable) ==
    IF Len(publicKey) = 0 THEN NilEntry
    ELSE IF TxnGetUnreadable(txn, _PrefixPublicKeyToPKID \o publicKey, unreadable).err # Nil
    THEN PKIDEntryOf(PublicKeyToPKID(publicKey), publicKey)
    ELSE DBGetPKIDEntryForPublicKeyWithTxn(txn, publicKey)

\* A delete of a follow while the read of its forward entry may fail.
DeleteFollowMappingsUnreadable ==
    \E followerPKID \in ScanPKIDs, followedPKID \in ScanPKIDs,
       unreadable \in SUBSET {_dbKeyForFollowerToFollowedMapping(f, g) :
                                 f \in ScanPKIDs, g \in ScanPKIDs} :
        LET res == DbDeleteFollowMappingsUnreadable(db, followerPKID, followedPKID, unreadable)
        IN  /\ db' = Commit(res)
            /\ last' = IF /\ res.err = Nil
                          /\ _dbKeyForFollowerToFollowedMapping(followerPKID, followedPKID)
                                 \in unreadable
                          /\ Has(res.txn, _dbKeyForFollowerToFollowedMapping(
                                              followerPKID, followedPKID))
                          /\ Has(res.txn, _dbKeyForFollowedToFollowerMapping(
                                              followedPKID, followerPKID))
                       THEN "read failure taken for absence"
                       ELSE OpKind(res, "delete")
            /\ live' = IF res.txn = db THEN live
                       ELSE LiveDelete(res, "follow", <<followerPKID, followedPKID>>)
            /\ UNCHANGED open

\* The resolution of a public key while the read of its mapping may fail.
GetPKIDEntryForPublicKeyUnreadable ==
    \E publicKey \in ScanPKIDs,
       unreadable \in SUBSET {_PrefixPublicKeyToPKID \o pk : pk \in ScanPKIDs} :
        /\ last' = IF /\ _PrefixPublicKeyToPKID \o publicKey \in unreadable
                      /\ Has(db, _PrefixPublicKeyToPKID \o publicKey)
                      /\ DBGetPKIDEntryForPublicKeyUnreadable(db, publicKey, unreadable)
                             = PKIDEntryOf(PublicKeyToPKID(publicKey), publicKey)
                   THEN "read failure taken for absence"
                   ELSE "none"
        /\ UNCHANGED <<db, live, open>>

\* Follows and PKID mappings of the same two users.
PutPKIDMappingsOfScan ==
    \E publicKey \in ScanPKIDs, pkid \in ScanPKIDs :
        LET res == DBPutPKIDMappingsWithTxn(db, publicKey, PKIDEntryOf(pkid, publicKey))
        IN  /\ WithinStoreBound(res)
            /\ db' = Commit(res)
            /\ last' = OpKind(res, "put")
            /\ UNCHANGED <<live, open>>

NextReadFailures ==
    \/ DbPutFollowMappingsOfScan
    \/ DeleteFollowMappingsUnreadable
    \/ PutPKIDMappingsOfScan
    \/ GetPKIDEntryForPublicKeyUnreadable

SpecReadFailures == Init /\ [][NextReadFailures]_vars

\* C28: when the read of the stored forward entry of a follow, or of the
\* stored mapping of a public key, fails for another reason than the absence
\* of the key, the delete does not return nil with both entries in place and
\* the resolution does not return the public key as its own PKID.
C28_ReadFailureIsNotAbsence == last # "read failure taken for absence"

(***************************************************************************)
(* Blocks and undo logs looked up by block hash.                           *)
(***************************************************************************)
_PrefixBlockHashToBlock == <<0>>

ErrNilHeader == "Header was nil in block"

BlockHashToBlockKey(blockHash) == _PrefixBlockHashToBlock \o blockHash

\* A block: its header, or NilEntry for no header, and its transactions as bytes.
\* The header carries the digest that Header.Hash() computes from it.
MsgBitCloutBlockOf(hash, nonce, txns) ==
    [Header |-> [Hash |-> hash, Nonce |-> nonce], Txns |-> txns]

\* ToBytes: the header, the number of transactions, the transactions.
BlockToBytes(block) ==
    block.Header.Hash \o <<block.Header.Nonce, Len(block.Txns)>> \o block.Txns

\* FromBytes: fails on bytes too short for a header or for the transactions
\* the count announces.
BlockFromBytes(data) ==
    IF \/ Len(data) < HashSizeBytes + 2
       \/ Len(data) # HashSizeBytes + 2 + data[HashSizeBytes + 2]
    THEN [block |-> NilEntry, err |-> ErrEOF]
    ELSE [block |-> MsgBitCloutBlockOf(SubSeq(data, 1, HashSizeBytes),
                                       data[HashSizeBytes + 1],
                                       SubSeq(data, HashSizeBytes + 3, Len(data))),
          err |-> Nil]

\* GetBlockWithTxn has no error result: every failure is a nil block.
GetBlockWithTxn(txn, blockHash) ==
    LET item == TxnGet(txn, BlockHashToBlockKey(blockHash))
    IN  IF item.err # Nil THEN NilEntry
        ELSE IF BlockFromBytes(item.val).err # Nil THEN NilEntry
        ELSE BlockFromBytes(item.val).block

\* GetBlock reads in its own read-only transaction and returns the error of
\* the read or of the parse.
GetBlock(blockHash) ==
    LET item == TxnGet(db, BlockHashToBlockKey(blockHash))
    IN  IF item.err # Nil THEN [block |-> NilEntry, err |-> item.err]
        ELSE IF BlockFromBytes(item.val).err # Nil
        THEN [block |-> NilEntry, err |-> BlockFromBytes(item.val).err]
        ELSE [block |-> BlockFromBytes(item.val).block, err |-> Nil]

\* A plausible bug: the block is set whether or not one is stored already.
PutBlockOverwriting(txn, bitcloutBlock) ==
    IF bitcloutBlock.Header = NilEntry THEN Fail(txn, ErrNilHeader)
    ELSE Ok(TxnSet(txn, BlockHashToBlockKey(bitcloutBlock.Header.Hash),
                   BlockToBytes(bitcloutBlock)))

\* A block already stored under its hash is left as it is.
PutBlockWithTxn(txn, bitcloutBlock) ==
    IF bitcloutBlock.Header = NilEntry THEN Fail(txn, ErrNilHeader)
    ELSE LET blockKey == BlockHashToBlockKey(bitcloutBlock.Header.Hash)
         IN  IF TxnGet(txn, blockKey).err = Nil THEN Ok(txn)
             ELSE Ok(TxnSet(txn, blockKey, BlockToBytes(bitcloutBlock)))

\* The blocks drawn as inputs: with and without transactions, and one
\* without a header.
Blocks ==
    {MsgBitCloutBlockOf(h, 7, txns) : h \in EncodedHashes, txns \in {<<>>, <<1, 2>>}}
        \cup {[Header |-> NilEntry, Txns |-> <<>>]}

PutBlock ==
    \E bitcloutBlock \in Blocks :
        LET res == PutBlockWithTxn(db, bitcloutBlock)
        IN  /\ db' = Commit(res)
            /\ last' = OpKind(res, "put")
            /\ UNCHANGED <<live, open>>

PutUtxoOperationsOfBlock ==
    \E blockHash \in EncodedHashes, utxoOpsForBlock \in {<< <<OpAdd>> >>, << <<>> >>} :
        LET res == PutUtxoOperationsForBlockWithTxn(db, blockHash, utxoOpsForBlock)
        IN  /\ db' = Commit(res)
            /\ last' = OpKind(res, "put")
            /\ UNCHANGED <<live, open>>

DeleteUtxoOperationsOfBlock ==
    \E blockHash \in EncodedHashes :
        LET res == DeleteUtxoOperationsForBlockWithTxn(db, blockHash)
        IN  /\ db' = Commit(res)
            /\ last' = OpKind(res, "delete")
            /\ UNCHANGED <<live, open>>

\* What a lookup by hash reported, given whether its key is stored.
LookupKind(stored, noValue, err) ==
    IF stored THEN (IF err = Nil THEN "found" ELSE "stored value not decoded")
    ELSE IF err # Nil THEN "absent key reported as error"
    ELSE IF noValue THEN "absent key reported as no value"
    ELSE "absent key reported as a value"

LookupBlock ==
    \E blockHash \in EncodedHashes :
        /\ last' = LookupKind(Has(db, BlockHashToBlockKey(blockHash)),
                              GetBlock(blockHash).block = NilEntry,
                              GetBlock(blockHash).err)
        /\ UNCHANGED <<db, live, open>>

LookupBlockWithTxn ==
    \E blockHash \in EncodedHashes :
        /\ last' = LookupKind(Has(db, BlockHashToBlockKey(blockHash)),
                              GetBlockWithTxn(db, blockHash) = NilEntry, Nil)
        /\ UNCHANGED <<db, live, open>>

LookupUtxoOperationsForBlock ==
    \E blockHash \in EncodedHashes :
        /\ last' = LookupKind(Has(db, _DbKeyForUtxoOps(blockHash)),
                              GetUtxoOperationsForBlock(blockHash).ops = <<>>,
                              GetUtxoOperationsForBlock(blockHash).err)
        /\ UNCHANGED <<db, live, open>>

NextLookup ==
    \/ PutBlock
    \/ PutUtxoOperationsOfBlock
    \/ DeleteUtxoOperationsOfBlock
    \/ LookupBlock
    \/ LookupBlockWithTxn
    \/ LookupUtxoOperationsForBlock

\* Blocks and undo logs put, deleted and looked up by block hash.
SpecLookup == Init /\ [][NextLookup]_vars

\* C29: a lookup of a block, or of the undo log of a block, under a hash
\* with nothing stored reports no value with a nil error: it never reports
\* an error.
C29_AbsentKeyIsNotAnError == last # "absent key reported as error"

(***************************************************************************)
(* The newest messages of a public key: a reverse enumeration of a prefix  *)
(* with a limit.                                                           *)
(***************************************************************************)
\* Messages returned by one inbox call (a constant of the program, scaled
\* down).
MessagesToFetchPerInboxCall == 2

_dbSeekPrefixForMessagePublicKey(publicKey) ==
    _PrefixPublicKeyTimestampToPrivateMessage \o publicKey

RECURSIVE EnumerateLimitedLoop(_, _, _, _, _, _, _)
\* The body of the for loop, the iterator at position i of keys.
EnumerateLimitedLoop(dbTxn, keys, i, prefix, limit, keysFound, valsFound) ==
    IF i > Len(keys) \/ ~IsPrefixOf(prefix, keys[i])
    THEN ScanResult(keysFound, valsFound, Nil)
    ELSE IF Len(keysFound) = limit
    THEN ScanResult(keysFound, valsFound, Nil)
    ELSE EnumerateLimitedLoop(dbTxn, keys, i + 1, prefix, limit,
                              Append(keysFound, keys[i]),
                              Append(valsFound, dbTxn[keys[i]]))

\* The reverse iterator is seeked to the prefix followed by one byte 0xFF.
_enumerateLimitedKeysReversedForPrefixWithTxn(dbTxn, dbPrefix, limit) ==
    LET keys == IteratorKeys(dbTxn, TRUE)
    IN  EnumerateLimitedLoop(dbTxn, keys,
                             IteratorSeek(keys, dbPrefix \o <<255>>, TRUE),
                             dbPrefix, limit, <<>>, <<>>)

\* The read-only transaction; an error is logged and nil, nil returned.
_enumerateLimitedKeysReversedForPrefix(dbPrefix, limit) ==
    LET found == _enumerateLimitedKeysReversedForPrefixWithTxn(db, dbPrefix, limit)
    IN  IF found.err # Nil THEN ScanResult(<<>>, <<>>, Nil) ELSE found

\* The values found, decoded; the decoding of a value may fail.
DbGetLimitedMessageEntriesForPublicKey(publicKey) ==
    LET valuesFound == _enumerateLimitedKeysReversedForPrefix(
                           _dbSeekPrefixForMessagePublicKey(publicKey),
                           MessagesToFetchPerInboxCall).valsFound
    IN  IF \E i \in 1..Len(valuesFound) : GobDecodeMessageEntry(valuesFound[i]) = NilEntry
        THEN [privateMessages |-> <<>>, err |-> ErrDecode]
        ELSE [privateMessages |-> [i \in 1..Len(valuesFound) |->
                                      GobDecodeMessageEntry(valuesFound[i])],
              err |-> Nil]

\* The timestamps of the messages of an inbox, up to the largest uint64.
InboxTstamps == {1, MaxTstamp, -1}

DbPutMessageEntryOfInbox ==
    \E senderPublicKey \in ScanPKIDs, recipientPublicKey \in ScanPKIDs,
       tstampNanos \in InboxTstamps :
        LET res == DbPutMessageEntryWithTxn(
                       db, MessageEntryOf(senderPublicKey, recipientPublicKey,
                                          <<1>>, tstampNanos))
        IN  /\ db' = Commit(res)
            /\ last' = OpKind(res, "put")
            /\ UNCHANGED <<live, open>>

DbDeleteMessageEntryMappingsOfInbox ==
    \E publicKey \in ScanPKIDs, tstampNanos \in InboxTstamps :
        LET res == DbDeleteMessageEntryMappingsWithTxn(db, publicKey, tstampNanos)
        IN  /\ db' = Commit(res)
            /\ last' = OpKind(res, "delete")
            /\ UNCHANGED <<live, open>>

NextInbox ==
    \/ DbPutMessageEntryOfInbox
    \/ DbDeleteMessageEntryMappingsOfInbox

\* Put and delete transactions on private messages of any timestamp.
SpecInbox == Init /\ [][NextInbox]_vars

\* The limit largest keys of a set, largest first.
LargestKeys(keys, limit) ==
    LET sorted == ReverseSeq(SortedKeys(keys))
    IN  SubSeq(sorted, 1, IF limit < Len(sorted) THEN limit ELSE Len(sorted))

\* C31: for every public key and every limit, the reverse enumeration of the
\* messages of the key returns the limit largest of the keys that carry the
\* prefix (all of them when there are fewer), largest first, and the inbox
\* call returns the messages stored under the MessagesToFetchPerInboxCall
\* largest keys.
C31_ReverseEnumerationReturnsTheLargestKeys ==
    \A publicKey \in ScanPKIDs :
        LET prefix == _dbSeekPrefixForMessagePublicKey(publicKey)
            largest(limit) == LargestKeys(KeysWithPrefix(db, prefix), limit)
            newest == largest(MessagesToFetchPerInboxCall)
        IN  /\ \A limit \in 0..4 :
                   _enumerateLimitedKeysReversedForPrefix(prefix, limit).keysFound
                       = largest(limit)
            /\ DbGetLimitedMessageEntriesForPublicKey(publicKey)
                   = [privateMessages |-> [i \in 1..Len(newest) |->
                                              GobDecodeMessageEntry(db[newest[i]])],
                      err |-> Nil]

(***************************************************************************)
(* Profiles:                                                               *)
(*   <prefix, PKID> -> <ProfileEntry>                                      *)
(*   <prefix, lowercase username> -> <PKID>                                *)
(*   <prefix, BitCloutLockedNanos uint64 big-endian, PKID> -> <>           *)
(***************************************************************************)
_PrefixPKIDToProfileEntry == <<23>>
_PrefixProfileUsernameToPKID == <<25>>

ProfileEntryOf(username, bitCloutLockedNanos) ==
    [Username |-> username, BitCloutLockedNanos |-> bitCloutLockedNanos]

GobEncodeProfileEntry(profileEntry) ==
    GobEncode(23, <<profileEntry.Username, EncodeUint64(profileEntry.BitCloutLockedNanos)>>)

GobDecodeProfileEntry(valBytes) ==
    LET d == GobDecode(23, 2, valBytes)
    IN  IF ~d.ok THEN NilEntry
        ELSE ProfileEntryOf(d.fields[1], DecodeUint64(d.fields[2]))

\* strings.ToLower on the bytes of an ASCII username.
ToLower(username) ==
    [i \in 1..Len(username) |->
        IF username[i] >= 65 /\ username[i] <= 90 THEN username[i] + 32
        ELSE username[i]]

_dbKeyForPKIDToProfileEntry(pkid) == _PrefixPKIDToProfileEntry \o pkid

_dbKeyForProfileUsernameToPKID(nonLowercaseUsername) ==
    _PrefixProfileUsernameToPKID \o ToLower(nonLowercaseUsername)

DBGetProfileEntryForPKIDWithTxn(txn, pkid) ==
    LET profileEntryItem == TxnGet(txn, _dbKeyForPKIDToProfileEntry(pkid))
    IN  IF profileEntryItem.err # Nil THEN NilEntry
        ELSE GobDecodeProfileEntry(profileEntryItem.val)

DBGetProfileEntryForPKID(pkid) == DBGetProfileEntryForPKIDWithTxn(db, pkid)

DBPutProfileEntryMappingsWithTxn(txn, profileEntry, pkid) ==
    LET t1 == TxnSet(txn, _dbKeyForPKIDToProfileEntry(pkid),
                     GobEncodeProfileEntry(profileEntry))
        t2 == TxnSet(t1, _dbKeyForProfileUsernameToPKID(profileEntry.Username), pkid)
        t3 == TxnSet(t2, _dbKeyForCreatorBitCloutLockedNanosCreatorPKID(
                             profileEntry.BitCloutLockedNanos, pkid), <<>>)
    IN  Ok(t3)

DBDeleteProfileEntryMappingsWithTxn(txn, pkid) ==
    LET profileEntry == DBGetProfileEntryForPKIDWithTxn(txn, pkid)
    IN  IF profileEntry = NilEntry THEN Ok(txn)
        ELSE Ok(TxnDeleteAll(txn,
                    {_dbKeyForPKIDToProfileEntry(pkid),
                     _dbKeyForProfileUsernameToPKID(profileEntry.Username),
                     _dbKeyForCreatorBitCloutLockedNanosCreatorPKID(
                         profileEntry.BitCloutLockedNanos, pkid)}))

(***************************************************************************)
(* Everything in a sorted index, highest first.                            *)
(***************************************************************************)
\* The uint64 that follows the prefix byte of each key.
Uint64sOfKeys(keys) == [i \in 1..Len(keys) |-> DecodeUint64(SubSeq(keys[i], 2, 9))]

\* The scan in one read-only transaction, then the entry of each post hash
\* in a transaction of its own; no write comes in between.
DBGetAllPostsByTstamp(fetchEntries) ==
    LET scan == DBGetAllPostsByTstampScan(db)
        postHashesFetched == PostHashesOfKeys(scan.keysFound)
        none == [tstamps |-> <<>>, postHashes |-> <<>>, postEntries |-> <<>>]
    IN  IF scan.err # Nil THEN none @@ [err |-> scan.err]
        ELSE IF ~fetchEntries
        THEN [tstamps |-> Uint64sOfKeys(scan.keysFound),
              postHashes |-> postHashesFetched, postEntries |-> <<>>, err |-> Nil]
        ELSE IF \E i \in 1..Len(postHashesFetched) :
                    DBGetPostEntryByPostHash(postHashesFetched[i]) = NilEntry
        THEN none @@ [err |-> ErrNoEntry]
        ELSE [tstamps |-> Uint64sOfKeys(scan.keysFound),
              postHashes |-> postHashesFetched,
              postEntries |-> [i \in 1..Len(postHashesFetched) |->
                                  DBGetPostEntryByPostHash(postHashesFetched[i])],
              err |-> Nil]

\* The scan of the locked-nanos index, highest first, from the prefix
\* followed by eight bytes 0xFF.
DBGetAllProfilesByCoinValueScan(txn) ==
    ScanLoop(txn, IteratorKeys(txn, TRUE),
             IteratorSeek(IteratorKeys(txn, TRUE),
                          _PrefixCreatorBitCloutLockedNanosCreatorPKID
                              \o <<255, 255, 255, 255, 255, 255, 255, 255>>,
                          TRUE),
             _PrefixCreatorBitCloutLockedNanosCreatorPKID,
             Len(_PrefixCreatorBitCloutLockedNanosCreatorPKID) + 8
                 + PubKeyBytesLenCompressed,
             0, FALSE, <<>>, <<>>)

DBGetAllProfilesByCoinValue(fetchEntries) ==
    LET scan == DBGetAllProfilesByCoinValueScan(db)
        profilePublicKeysFetched ==
            [i \in 1..Len(scan.keysFound) |->
                PublicKeyToPKID(SubSeq(scan.keysFound[i], 10, Len(scan.keysFound[i])))]
        none == [lockedBitCloutNanos |-> <<>>, profilePublicKeys |-> <<>>,
                 profileEntries |-> <<>>]
    IN  IF scan.err # Nil THEN none @@ [err |-> scan.err]
        ELSE IF ~fetchEntries
        THEN [lockedBitCloutNanos |-> Uint64sOfKeys(scan.keysFound),
              profilePublicKeys |-> profilePublicKeysFetched,
              profileEntries |-> <<>>, err |-> Nil]
        ELSE IF \E i \in 1..Len(profilePublicKeysFetched) :
                    DBGetProfileEntryForPKID(profilePublicKeysFetched[i]) = NilEntry
        THEN none @@ [err |-> ErrNoEntry]
        ELSE [lockedBitCloutNanos |-> Uint64sOfKeys(scan.keysFound),
              profilePublicKeys |-> profilePublicKeysFetched,
              profileEntries |-> [i \in 1..Len(profilePublicKeysFetched) |->
                                     DBGetProfileEntryForPKID(profilePublicKeysFetched[i])],
              err |-> Nil]

\* The sort values of the posts and profiles: small ones and the largest
\* uint64.
SortValues == {1, MaxPayload, -1}

DBPutPostEntryMappingsOfAnyTstamp ==
    \E postHash \in PostHashes, timestampNanos \in SortValues :
        LET res == DBPutPostEntryMappingsWithTxn(
                       db, PostEntryOf(postHash, PKIDOf(1), <<>>, timestampNanos, <<>>))
        IN  /\ DBGetPostEntryByPostHash(postHash) = NilEntry
            /\ db' = Commit(res)
            /\ last' = OpKind(res, "put")
            /\ live' = live \cup {<<"post", timestampNanos, postHash>>}
            /\ UNCHANGED open

DBDeletePostEntryMappingsOfAnyTstamp ==
    \E postHash \in PostHashes :
        LET res == DBDeletePostEntryMappingsWithTxn(db, postHash)
        IN  /\ db' = Commit(res)
            /\ last' = OpKind(res, "delete")
            /\ live' = {l \in live : ~(l[1] = "post" /\ l[3] = postHash)}
            /\ UNCHANGED open

\* The username of the profile of a PKID.
UsernameOf(pkid) == <<85, pkid[Len(pkid)]>>

\* A profile is put when its PKID has none.
DBPutProfileEntryMappings ==
    \E pkid \in ScanPKIDs, bitCloutLockedNanos \in SortValues :
        LET res == DBPutProfileEntryMappingsWithTxn(
                       db, ProfileEntryOf(UsernameOf(pkid), bitCloutLockedNanos), pkid)
        IN  /\ DBGetProfileEntryForPKID(pkid) = NilEntry
            /\ db' = Commit(res)
            /\ last' = OpKind(res, "put")
            /\ live' = live \cup {<<"profile", bitCloutLockedNanos, pkid>>}
            /\ UNCHANGED open

DBDeleteProfileEntryMappings ==
    \E pkid \in ScanPKIDs :
        LET res == DBDeleteProfileEntryMappingsWithTxn(db, pkid)
        IN  /\ db' = Commit(res)
            /\ last' = OpKind(res, "delete")
            /\ live' = {l \in live : ~(l[1] = "profile" /\ l[3] = pkid)}
            /\ UNCHANGED open

NextSorted ==
    \/ DBPutPostEntryMappingsOfAnyTstamp
    \/ DBDeletePostEntryMappingsOfAnyTstamp
    \/ DBPutProfileEntryMappings
    \/ DBDeleteProfileEntryMappings

\* Put and delete transactions on posts and profiles of any sort value.
SpecSorted == Init /\ [][NextSorted]_vars

\* nums and ids list every (number, id) pair of kind in live once, highest
\* number first and, for equal numbers, largest id first.
ListsAllHighestFirst(kind, nums, ids) ==
    /\ Len(nums) = Len(ids)
    /\ {<<kind, nums[i], ids[i]>> : i \in 1..Len(nums)} = {l \in live : l[1] = kind}
    /\ \A i \in 1..Len(nums), j \in 1..Len(nums) :
           i < j => \/ Uint64Less(nums[j], nums[i])
                    \/ nums[j] = nums[i] /\ BytesLess(ids[j], ids[i])

\* C32: DBGetAllPostsByTstamp returns every post of the timestamp index,
\* newest first and for equal timestamps in decreasing post hash order, and
\* DBGetAllProfilesByCoinValue returns every profile of the locked-nanos
\* index, highest value first, each with its entry, for sort values up to
\* 2^64-1.
C32_SortedQueriesReturnEverything ==
    LET posts == DBGetAllPostsByTstamp(TRUE)
        profiles == DBGetAllProfilesByCoinValue(TRUE)
    IN  /\ posts.err = Nil
        /\ ListsAllHighestFirst("post", posts.tstamps, posts.postHashes)
        /\ \A i \in 1..Len(posts.postEntries) :
               /\ posts.postEntries[i].PostHash = posts.postHashes[i]
               /\ posts.postEntries[i].TimestampNanos = posts.tstamps[i]
        /\ profiles.err = Nil
        /\ ListsAllHighestFirst("profile", profiles.lockedBitCloutNanos,
                                profiles.profilePublicKeys)
        /\ \A i \in 1..Len(profiles.profileEntries) :
               profiles.profileEntries[i].BitCloutLockedNanos
                   = profiles.lockedBitCloutNanos[i]

(***************************************************************************)
(* Store writes that fail: txn.Set returns an error (a transaction grown   *)
(* too big, a key or a value over the size limit) and writes nothing.  The *)
(* keys whose write fails are chosen at each call.                         *)
(***************************************************************************)
ErrTxnTooBig == "ErrTxnTooBig"

TxnSetUnwritable(txn, key, val, unwritable) ==
    IF key \in unwritable THEN Fail(txn, ErrTxnTooBig) ELSE Ok(TxnSet(txn, key, val))

PutUtxoEntryForUtxoKeyUnwritable(txn, utxoKey, utxoEntry, unwritable) ==
    TxnSetUnwritable(txn, _DbKeyForUtxoKey(utxoKey), _DbBufForUtxoEntry(utxoEntry),
                     unwritable)

_DbKeyForPubKeyUtxoKey(publicKey, utxoKey) ==
    _PrefixPubKeyUtxoKey \o publicKey \o _SerializeUtxoKey(utxoKey)

PutPubKeyUtxoKeyUnwritable(txn, publicKey, utxoKey, unwritable) ==
    IF Len(publicKey) # PubKeyBytesLenCompressed THEN Fail(txn, ErrLength)
    ELSE TxnSetUnwritable(txn, _DbKeyForPubKeyUtxoKey(publicKey, utxoKey), <<>>,
                          unwritable)

\* PutMappingsForUtxoWithTxn over writes that may fail: on an error of the
\* first write it returns nil.
PutMappingsForUtxoUnwritable(txn, utxoKey, utxoEntry, unwritable) ==
    LET r1 == PutUtxoEntryForUtxoKeyUnwritable(txn, utxoKey, utxoEntry, unwritable)
    IN  IF r1.err # Nil THEN Ok(r1.txn)
        ELSE PutPubKeyUtxoKeyUnwritable(r1.txn, utxoEntry.PublicKey, utxoKey, unwritable)

\* Both records of the put are in txn.
BothWritten(txn, utxoKey, utxoEntry) ==
    /\ Has(txn, _DbKeyForUtxoKey(utxoKey))
    /\ txn[_DbKeyForUtxoKey(utxoKey)] = _DbBufForUtxoEntry(utxoEntry)
    /\ Has(txn, _DbKeyForPubKeyUtxoKey(utxoEntry.PublicKey, utxoKey))

\* The outputs added: two outputs of one transaction.
WrittenUtxoKeys == {UtxoKeyOf(BlockHashOf(1), 0), UtxoKeyOf(BlockHashOf(1), 1)}

\* addUtxo with writes that may fail: the caller's transaction commits iff
\* the function returned nil.
PutMappingsForUtxoWithWriteFailures ==
    \E utxoKey \in WrittenUtxoKeys, publicKey \in PubKeys, amountNanos \in Payloads :
        \E unwritable \in SUBSET {_DbKeyForUtxoKey(utxoKey),
                                  _DbKeyForPubKeyUtxoKey(publicKey, utxoKey)} :
            LET utxoEntry == UtxoEntryOf(publicKey, amountNanos)
                res == PutMappingsForUtxoUnwritable(db, utxoKey, utxoEntry, unwritable)
            IN  /\ WithinStoreBound(res)
                /\ db' = Commit(res)
                /\ last' = IF res.err # Nil THEN "failed"
                           ELSE IF BothWritten(res.txn, utxoKey, utxoEntry) THEN "put"
                           ELSE "nil without both writes"
                /\ UNCHANGED <<live, open>>

NextUtxoWrites ==
    \/ PutMappingsForUtxoWithWriteFailures
    \/ DeleteUnmodifiedMappingsForUtxo

\* UTXO adds whose writes may fail, and removes.
SpecUtxoWrites == Init /\ [][NextUtxoWrites]_vars

\* C33: PutMappingsForUtxoWithTxn returns nil only when the record of the
\* key and the entry of the owner index are both written in the
\* transaction; when one of the two writes fails it returns an error.
C33_NilOnlyWhenBothWritten == last # "nil without both writes"

(***************************************************************************)
(* The block index with its nodes as allocated objects: a *BlockNode is    *)
(* the position of the node in the list of the nodes allocated so far, 0   *)
(* is nil, and Parent holds such a reference.                              *)
(***************************************************************************)
ErrNeverReturns == "the loop never ends"

BlockIndexByReference(blockIndex, nodes, err) ==
    [blockIndex |-> blockIndex, nodes |-> nodes, err |-> err]

RECURSIVE GetBlockIndexLoopLinkingLastRead(_, _, _, _, _)
\* A plausible bug: the parent is taken to be the node read just before.
GetBlockIndexLoopLinkingLastRead(txn, keys, i, blockIndex, nodes) ==
    IF i > Len(keys) THEN BlockIndexByReference(blockIndex, nodes, Nil)
    ELSE LET decoded == DeserializeBlockNode(txn[keys[i]])
             blockNode == [decoded.blockNode EXCEPT !.Parent = 0]
             ref == Len(nodes) + 1
             stored == MapSet(blockIndex, blockNode.Hash, ref)
             prev == blockNode.Header.PrevBlockHash
         IN  IF decoded.err # Nil THEN BlockIndexByReference(<<>>, <<>>, decoded.err)
             ELSE IF blockNode.Height = 0 \/ prev = ZeroBlockHash
             THEN GetBlockIndexLoopLinkingLastRead(txn, keys, i + 1, stored,
                                                   Append(nodes, blockNode))
             ELSE IF prev \in DOMAIN stored
             THEN GetBlockIndexLoopLinkingLastRead(
                      txn, keys, i + 1, stored,
                      Append(nodes, [blockNode EXCEPT !.Parent = ref - 1]))
             ELSE BlockIndexByReference(<<>>, <<>>, ErrOrphan)

RECURSIVE GetBlockIndexLoopByReference(_, _, _, _, _)
\* The loop of GetBlockIndex, the iterator at position i of keys: the node
\* is stored in the index before its parent is looked up there.
GetBlockIndexLoopByReference(txn, keys, i, blockIndex, nodes) ==
    IF i > Len(keys) THEN BlockIndexByReference(blockIndex, nodes, Nil)
    ELSE LET decoded == DeserializeBlockNode(txn[keys[i]])
             blockNode == [decoded.blockNode EXCEPT !.Parent = 0]
             ref == Len(nodes) + 1
             stored == MapSet(blockIndex, blockNode.Hash, ref)
             prev == blockNode.Header.PrevBlockHash
         IN  IF decoded.err # Nil THEN BlockIndexByReference(<<>>, <<>>, decoded.err)
             ELSE IF blockNode.Height = 0 \/ prev = ZeroBlockHash
             THEN GetBlockIndexLoopByReference(txn, keys, i + 1, stored,
                                               Append(nodes, blockNode))
             ELSE IF prev \in DOMAIN stored
             THEN GetBlockIndexLoopByReference(
                      txn, keys, i + 1, stored,
                      Append(nodes, [blockNode EXCEPT !.Parent = stored[prev]]))
             ELSE BlockIndexByReference(<<>>, <<>>, ErrOrphan)

GetBlockIndexByReference(bitcoinNodes) ==
    LET prefix == _heightHashToNodeIndexPrefix(bitcoinNodes)
    IN  GetBlockIndexLoopByReference(db, SortedKeys(KeysWithPrefix(db, prefix)), 1,
                                     <<>>, <<>>)

RECURSIVE ReversedBestChainByReference(_, _, _)
\* The first loop of GetBestChain from tipNode, the nodes in visited
\* appended so far: back at one of them, every node of the cycle has a
\* validated status and the loop goes round it for ever.
ReversedBestChainByReference(nodes, tipNode, visited) ==
    IF tipNode = 0 THEN [chain |-> <<>>, err |-> Nil]
    ELSE IF /\ ~HasStatus(nodes[tipNode].Status, StatusBlockValidated)
            /\ ~HasStatus(nodes[tipNode].Status, StatusBitcoinHeaderValidated)
    THEN [chain |-> <<>>, err |-> ErrInvalidNode]
    ELSE IF tipNode \in visited THEN [chain |-> <<>>, err |-> ErrNeverReturns]
    ELSE LET rest == ReversedBestChainByReference(nodes, nodes[tipNode].Parent,
                                                  visited \cup {tipNode})
         IN  IF rest.err # Nil THEN rest
             ELSE [chain |-> <<tipNode>> \o rest.chain, err |-> Nil]

\* GetBestChain: the references of the nodes, the root first.
GetBestChainByReference(nodes, tipNode) ==
    LET reversed == ReversedBestChainByReference(nodes, tipNode, {})
    IN  IF reversed.err # Nil THEN [bestChain |-> <<>>, err |-> reversed.err]
        ELSE [bestChain |-> ReverseSeq(reversed.chain), err |-> Nil]

\* Any node may be written to the chain index: any height, and as its
\* predecessor no block, another block or the block itself.
AnyHashes == {BlockHashOf(1), BlockHashOf(2)}

AnyNodes ==
    {NewBlockNode(NilEntry, hash, height, BlockHashOf(1), height + 1,
                  [PrevBlockHash |-> prev], StatusFullyValidated) :
        hash \in AnyHashes, height \in 0..2, prev \in AnyHashes \cup {ZeroBlockHash}}

PutHeightHashToNodeInfoOfAnyNode ==
    \E node \in AnyNodes :
        LET res == PutHeightHashToNodeInfoWithTxn(db, node, FALSE)
        IN  /\ db' = Commit(res)
            /\ last' = OpKind(res, "put")
            /\ UNCHANGED <<live, open>>

DbBulkDeleteHeightHashToNodeInfoOfAnyNode ==
    \E node \in AnyNodes :
        LET res == DbBulkDeleteLoop(<<node>>, db, FALSE)
        IN  /\ db' = Commit(res)
            /\ last' = OpKind(res, "delete")
            /\ UNCHANGED <<live, open>>

NextChainAny ==
    \/ PutHeightHashToNodeInfoOfAnyNode
    \/ DbBulkDeleteHeightHashToNodeInfoOfAnyNode

\* Puts and deletes of any node in the chain index.
SpecChainAny == Init /\ [][NextChainAny]_vars

\* C34: in a block index that GetBlockIndex returns without error no node
\* is its own Parent, no walk along the Parent links comes back to a node,
\* and GetBestChain returns for every tip of the index.
C34_ParentLinksAreAcyclic ==
    LET res == GetBlockIndexByReference(FALSE)
    IN  res.err = Nil =>
            \A hash \in DOMAIN res.blockIndex :
                /\ res.nodes[res.blockIndex[hash]].Parent # res.blockIndex[hash]
                /\ GetBestChainByReference(res.nodes, res.blockIndex[hash]).err
                       # ErrNeverReturns

(***************************************************************************)
(* A chain with forks.  A block's hash is the hash of its header, so the   *)
(* hash decides the predecessor and the height.                            *)
(***************************************************************************)
\* The root has the largest hash; at height 1 two siblings; at height 2 a
\* child of the sibling with the larger hash, itself with the smaller hash,
\* and a child of the other sibling; at height 3 a child of the first.
ForkTree ==
    << [Hash |-> MaxBlockHash, Prev |-> 0, Height |-> 0],
       [Hash |-> BlockHashOf(1), Prev |-> 1, Height |-> 1],
       [Hash |-> BlockHashOf(2), Prev |-> 1, Height |-> 1],
       [Hash |-> BlockHashOf(3), Prev |-> 3, Height |-> 2],
       [Hash |-> BlockHashOf(4), Prev |-> 2, Height |-> 2],
       [Hash |-> BlockHashOf(5), Prev |-> 4, Height |-> 3] >>

ForkNodeOf(i, status) ==
    NewBlockNode(NilEntry, ForkTree[i].Hash, ForkTree[i].Height, BlockHashOf(1),
                 ForkTree[i].Height + 1,
                 [PrevBlockHash |-> IF ForkTree[i].Prev = 0 THEN ZeroBlockHash
                                    ELSE ForkTree[ForkTree[i].Prev].Hash],
                 status)

\* Block i of the tree is in the chain index.
ForkNodeStored(i) ==
    GetHeightHashToNodeInfo(ForkTree[i].Height, ForkTree[i].Hash, FALSE) # NilEntry

\* A block is stored after its predecessor.
PutForkNode ==
    \E i \in 1..Len(ForkTree), status \in {StatusHeaderValidated, StatusFullyValidated} :
        LET res == PutHeightHashToNodeInfoWithTxn(db, ForkNodeOf(i, status), FALSE)
        IN  /\ ForkTree[i].Prev # 0 => ForkNodeStored(ForkTree[i].Prev)
            /\ db' = Commit(res)
            /\ last' = OpKind(res, "put")
            /\ UNCHANGED <<live, open>>

\* A block is deleted when no stored block follows it.
DeleteForkNode ==
    \E i \in 1..Len(ForkTree) :
        LET res == DbBulkDeleteLoop(<<ForkNodeOf(i, StatusNone)>>, db, FALSE)
        IN  /\ \A j \in 1..Len(ForkTree) : ForkTree[j].Prev = i => ~ForkNodeStored(j)
            /\ db' = Commit(res)
            /\ last' = OpKind(res, "delete")
            /\ UNCHANGED <<live, open>>

NextForks ==
    \/ PutForkNode
    \/ DeleteForkNode

\* Puts and deletes of the blocks of a tree, predecessors first.
SpecForks == Init /\ [][NextForks]_vars

RECURSIVE ForkPath(_)
\* The hashes from the root to block i of the tree.
ForkPath(i) ==
    IF i = 0 THEN <<>> ELSE Append(ForkPath(ForkTree[i].Prev), ForkTree[i].Hash)

\* C35: over a stored tree with forks GetBlockIndex returns every stored
\* node, each above the root with the node of the hash its header names as
\* Parent, and GetBestChain of a tip whose branch is validated returns the
\* nodes from the root to the tip along that branch and no other node.
C35_ForksAreLinkedByHash ==
    LET res == GetBlockIndexByReference(FALSE)
        nodeOf(i) == res.nodes[res.blockIndex[ForkTree[i].Hash]]
    IN  /\ res.err = Nil
        /\ DOMAIN res.blockIndex
               = {ForkTree[i].Hash : i \in {j \in 1..Len(ForkTree) : ForkNodeStored(j)}}
        /\ \A i \in 1..Len(ForkTree) :
               ForkNodeStored(i) =>
                   LET best == GetBestChainByReference(
                                   res.nodes, res.blockIndex[ForkTree[i].Hash])
                   IN  /\ nodeOf(i).Hash = ForkTree[i].Hash
                       /\ nodeOf(i).Height = ForkTree[i].Height
                       /\ nodeOf(i).Parent
                              = IF ForkTree[i].Prev = 0 THEN 0
                                ELSE res.blockIndex[ForkTree[ForkTree[i].Prev].Hash]
                       /\ IF best.err = Nil
                          THEN [k \in 1..Len(best.bestChain) |->
                                   res.nodes[best.bestChain[k]].Hash] = ForkPath(i)
                          ELSE /\ best.err = ErrInvalidNode
                               /\ \E k \in 1..Len(ForkPath(i)) :
                                      ~HasStatus(
                                          res.nodes[res.blockIndex[ForkPath(i)[k]]].Status,
                                          StatusBlockValidated)

\* The whole tree is stored and validated, its last block just written: the
\* two blocks of height 2 follow siblings in the other order of their
\* hashes.
C35_Witness ==
    /\ last = "put"
    /\ \A i \in 1..Len(ForkTree) :
           /\ ForkNodeStored(i)
           /\ HasStatus(GetHeightHashToNodeInfo(ForkTree[i].Height, ForkTree[i].Hash,
                                                FALSE).Status,
                        StatusBlockValidated)

\* C36: in every store reached by puts and deletes of PKID mappings the two
\* identity tables mirror each other: the PKID of every stored mapping of a
\* public key has a stored mapping to a public key, and every stored mapping
\* of a PKID leads to a public key whose stored mapping leads back to it.
C36_IdentityTablesMirror ==
    /\ \A publicKey \in PubKeys :
           Has(db, _PrefixPublicKeyToPKID \o publicKey) =>
               Has(db, _PrefixPKIDToPublicKey
                           \o DBGetPKIDEntryForPublicKey(publicKey).PKID)
    /\ \A pkidd \in PKIDs :
           Has(db, _PrefixPKIDToPublicKey \o pkidd) =>
               /\ Has(db, _PrefixPublicKeyToPKID \o DBGetPublicKeyForPKID(pkidd))
               /\ DBGetPKIDEntryForPublicKey(DBGetPublicKeyForPKID(pkidd)).PKID = pkidd

(***************************************************************************)
(* A put of a post followed by the delete of its hash.                     *)
(***************************************************************************)
\* Each post has a poster of its own, so that no two posts share a key.
PosterOf(postHash) == IF postHash = MaxBlockHash THEN PKIDOf(2) ELSE PKIDOf(1)

\* Posts of every kind: a post, a comment on a post (the parent a block
\* hash), a comment on a profile (the parent a public key), and each of
\* them as a vanilla reclout.
PostEntriesOfAnyKind ==
    {PostEntryOf(postHash, PosterOf(postHash), parentStakeID, 1, recloutedPostHash) :
        postHash \in PostHashes,
        parentStakeID \in {<<>>, BlockHashOf(2), PKIDOf(2)},
        recloutedPostHash \in {<<>>, BlockHashOf(2)}}

\* A post is put when no post of its hash is stored; the history keeps the
\* keys that the last put of each post hash added to the store.
DBPutPostEntryMappingsOfAnyKind ==
    \E postEntry \in PostEntriesOfAnyKind :
        LET res == DBPutPostEntryMappingsWithTxn(db, postEntry)
        IN  /\ DBGetPostEntryByPostHash(postEntry.PostHash) = NilEntry
            /\ db' = Commit(res)
            /\ last' = OpKind(res, "put")
            /\ live' = IF res.err # Nil THEN live
                       ELSE {l \in live : l[2] # postEntry.PostHash}
                                \cup {<<"added", postEntry.PostHash, key>> :
                                         key \in DOMAIN res.txn \ DOMAIN db}
            /\ UNCHANGED open

DBDeletePostEntryMappingsOfAnyKind ==
    \E postHash \in PostHashes :
        LET res == DBDeletePostEntryMappingsWithTxn(db, postHash)
        IN  /\ db' = Commit(res)
            /\ last' = OpKind(res, "delete")
            /\ UNCHANGED <<live, open>>

NextPostRoundTrip ==
    \/ DBPutPostEntryMappingsOfAnyKind
    \/ DBDeletePostEntryMappingsOfAnyKind

\* Put and delete transactions on posts, comments and reclouts.
SpecPostRoundTrip == Init /\ [][NextPostRoundTrip]_vars

\* C37: no key that the put of a post added to the store is left once the
\* post has been deleted: the primary key, the keys of the sort indexes, the
\* key of the comment index and the key of the reclout are all gone.
C37_DeleteUndoesPut ==
    \A added \in live :
        DBGetPostEntryByPostHash(added[2]) = NilEntry => ~Has(db, added[3])

(***************************************************************************)
(* The diamond queries: the diamonds a PKID received or gave, and the      *)
(* diamonds one sender gave one receiver.                                  *)
(***************************************************************************)
ErrNilDiamondEntry == "Found nil DiamondEntry"
ErrInvalidKeyLength == "Invalid key length"
ErrSenderMismatch == "Sender PKID in DB did not match Sender PKID in DiamondEntry"
ErrReceiverMismatch == "Receiver PKID in DB did not match Receiver PKID in DiamondEntry"
ErrPostHashMismatch == "Post hash found in DB key did not match post hash in DiamondEntry"

_dbSeekPrefixForPKIDsThatDiamondedYou(yourPKID) ==
    _PrefixDiamondReceiverPKIDDiamondSenderPKIDPostHash \o yourPKID

_dbSeekPrefixForPKIDsThatYouDiamonded(yourPKID) ==
    _PrefixDiamondSenderPKIDDiamondReciverPKIDPostHash \o yourPKID

_dbSeekPrefixForReceiverPKIDAndSenderPKID(receiverPKID, senderPKID) ==
    _PrefixDiamondReceiverPKIDDiamondSenderPKIDPostHash \o receiverPKID \o senderPKID

\* copy(dst[:], src) into a zeroed array of n bytes.
CopyToArray(n, src) == [i \in 1..n |-> IF i <= Len(src) THEN src[i] ELSE 0]

\* keyBytes[from:to] of Go, on 0-based offsets.
Slice(keyBytes, from, to) == SubSeq(keyBytes, from + 1, to)

\* pkidsToDiamondEntryMap[pkid] = append(pkidsToDiamondEntryMap[pkid], entry)
AppendToMap(pkidsToDiamondEntryMap, pkid, diamondEntry) ==
    [k \in DOMAIN pkidsToDiamondEntryMap \cup {pkid} |->
        IF k = pkid
        THEN Append(IF pkid \in DOMAIN pkidsToDiamondEntryMap
                    THEN pkidsToDiamondEntryMap[pkid] ELSE <<>>, diamondEntry)
        ELSE pkidsToDiamondEntryMap[k]]

EmptyMap == [k \in {} |-> <<>>]

RECURSIVE DiamondedYouLoop(_, _, _, _, _, _, _, _)
\* The loop of DbGetPKIDsThatDiamondedYouMap over the keys found.
DiamondedYouLoop(keysFound, valsFound, ii, diamondSenderStartIdx, diamondSenderEndIdx, diamondReceiverStartIdx, diamondReceiverEndIdx, pkidsToDiamondEntryMap) ==
    IF ii > Len(keysFound) THEN [map |-> pkidsToDiamondEntryMap, err |-> Nil]
    ELSE LET keyBytes == keysFound[ii]
             diamondEntry == _DbDiamondEntryForDbBuf(valsFound[ii])
             expectedDiamondKeyLen == 1 + 2 * PubKeyBytesLenCompressed + HashSizeBytes
             diamondSenderPKID ==
                 CopyToArray(PubKeyBytesLenCompressed,
                             Slice(keyBytes, diamondSenderStartIdx, diamondSenderEndIdx))
             diamondReceiverPKID ==
                 CopyToArray(PubKeyBytesLenCompressed,
                             Slice(keyBytes, diamondReceiverStartIdx, diamondReceiverEndIdx))
             diamondPostHash ==
                 CopyToArray(HashSizeBytes,
                             Slice(keyBytes, 1 + 2 * PubKeyBytesLenCompressed, Len(keyBytes)))
         IN  IF diamondEntry = NilEntry
             THEN [map |-> EmptyMap, err |-> ErrNilDiamondEntry]
             ELSE IF Len(keyBytes) # expectedDiamondKeyLen
             THEN [map |-> EmptyMap, err |-> ErrInvalidKeyLength]
             ELSE IF diamondSenderPKID # diamondEntry.SenderPKID
             THEN [map |-> EmptyMap, err |-> ErrSenderMismatch]
             ELSE IF diamondReceiverPKID # diamondEntry.ReceiverPKID
             THEN [map |-> EmptyMap, err |-> ErrReceiverMismatch]
             ELSE IF diamondPostHash # diamondEntry.DiamondPostHash
             THEN [map |-> EmptyMap, err |-> ErrPostHashMismatch]
             ELSE DiamondedYouLoop(keysFound, valsFound, ii + 1,
                      diamondSenderStartIdx, diamondSenderEndIdx,
                      diamondReceiverStartIdx, diamondReceiverEndIdx,
                      AppendToMap(pkidsToDiamondEntryMap, diamondSenderPKID, diamondEntry))

DiamondedYouOfFound(found, fetchYouDiamonded) ==
    IF fetchYouDiamonded
    THEN DiamondedYouLoop(found.keysFound, found.valsFound, 1,
                          1, 1 + PubKeyBytesLenCompressed,
                          1 + PubKeyBytesLenCompressed, 1 + 2 * PubKeyBytesLenCompressed,
                          EmptyMap)
    ELSE DiamondedYouLoop(found.keysFound, found.valsFound, 1,
                          1 + PubKeyBytesLenCompressed, 1 + 2 * PubKeyBytesLenCompressed,
                          1, 1 + PubKeyBytesLenCompressed,
                          EmptyMap)

DbGetPKIDsThatDiamondedYouMap(yourPKID, fetchYouDiamonded) ==
    DiamondedYouOfFound(
        _enumerateKeysForPrefix(
            IF fetchYouDiamonded THEN _dbSeekPrefixForPKIDsThatYouDiamonded(yourPKID)
            ELSE _dbSeekPrefixForPKIDsThatDiamondedYou(yourPKID), {}),
        fetchYouDiamonded)

RECURSIVE SenderToReceiverLoop(_, _, _, _)
\* The loop of DbGetDiamondEntriesForSenderToReceiver over the keys found.
SenderToReceiverLoop(keysFound, valsFound, ii, diamondEntries) ==
    IF ii > Len(keysFound) THEN ListResult(diamondEntries, Nil)
    ELSE LET keyBytes == keysFound[ii]
             diamondEntry == _DbDiamondEntryForDbBuf(valsFound[ii])
             expectedDiamondKeyLen == 1 + 2 * PubKeyBytesLenCompressed + HashSizeBytes
             diamondSenderPKID ==
                 CopyToArray(PubKeyBytesLenCompressed,
                             Slice(keyBytes, 1 + PubKeyBytesLenCompressed,
                                   1 + 2 * PubKeyBytesLenCompressed))
             diamondPostHash ==
                 CopyToArray(HashSizeBytes,
                             Slice(keyBytes, 1 + 2 * PubKeyBytesLenCompressed, Len(keyBytes)))
         IN  IF diamondEntry = NilEntry THEN ListResult(<<>>, ErrNilDiamondEntry)
             ELSE IF Len(keyBytes) # expectedDiamondKeyLen
             THEN ListResult(<<>>, ErrInvalidKeyLength)
             ELSE IF diamondSenderPKID # diamondEntry.SenderPKID
             THEN ListResult(<<>>, ErrSenderMismatch)
             ELSE IF diamondPostHash # diamondEntry.DiamondPostHash
             THEN ListResult(<<>>, ErrPostHashMismatch)
             ELSE SenderToReceiverLoop(keysFound, valsFound, ii + 1,
                                       Append(diamondEntries, diamondEntry))

SenderToReceiverOfFound(found) ==
    SenderToReceiverLoop(found.keysFound, found.valsFound, 1, <<>>)

DbGetDiamondEntriesForSenderToReceiver(receiverPKID, senderPKID) ==
    SenderToReceiverOfFound(
        _enumerateKeysForPrefix(
            _dbSeekPrefixForReceiverPKIDAndSenderPKID(receiverPKID, senderPKID), {}))

\* The PKIDs, post hashes and levels the diamonds are given with.
DiamondPKIDs == {PKIDOf(1), PKIDOf(2)}
DiamondPostHashes == {ZeroBlockHash, MaxBlockHash}
DiamondLevels == {1, 2}
\* The store holds at most this many diamond keys, two for each diamond.
MaxDiamondKeys == 6

\* The live diamonds after a put that returned res: the entry put replaces
\* the one of the same receiver, sender and post hash.
LivePutDiamond(res, diamondEntry) ==
    IF res.err # Nil THEN live
    ELSE {d \in live : ~(/\ d[2].ReceiverPKID = diamondEntry.ReceiverPKID
                         /\ d[2].SenderPKID = diamondEntry.SenderPKID
                         /\ d[2].DiamondPostHash = diamondEntry.DiamondPostHash)}
             \cup {<<"diamond", diamondEntry>>}

LiveDeleteDiamond(res, diamondReceiverPKID, diamondSenderPKID, diamondPostHash) ==
    IF res.err # Nil THEN live
    ELSE {d \in live : ~(/\ d[2].ReceiverPKID = diamondReceiverPKID
                         /\ d[2].SenderPKID = diamondSenderPKID
                         /\ d[2].DiamondPostHash = diamondPostHash)}

DbPutDiamondMappingsOfAnyLevel ==
    \E senderPKID \in DiamondPKIDs, receiverPKID \in DiamondPKIDs,
       diamondPostHash \in DiamondPostHashes, diamondLevel \in DiamondLevels :
        LET diamondEntry == DiamondEntryOf(senderPKID, receiverPKID,
                                           diamondPostHash, diamondLevel)
            res == DbPutDiamondMappingsWithTxn(db, diamondEntry)
        IN  /\ Cardinality(DOMAIN res.txn) <= MaxDiamondKeys
            /\ db' = Commit(res)
            /\ last' = OpKind(res, "put")
            /\ live' = LivePutDiamond(res, diamondEntry)
            /\ UNCHANGED open

DbDeleteDiamondMappingsOfAnyLevel ==
    \E diamondReceiverPKID \in DiamondPKIDs, diamondSenderPKID \in DiamondPKIDs,
       diamondPostHash \in DiamondPostHashes :
        LET res == DbDeleteDiamondMappingsWithTxn(
                       db, diamondReceiverPKID, diamondSenderPKID, diamondPostHash)
        IN  /\ db' = Commit(res)
            /\ last' = OpKind(res, "delete")
            /\ live' = LiveDeleteDiamond(res, diamondReceiverPKID,
                                         diamondSenderPKID, diamondPostHash)
            /\ UNCHANGED open

NextDiamonds == DbPutDiamondMappingsOfAnyLevel \/ DbDeleteDiamondMappingsOfAnyLevel

SpecDiamonds == Init /\ [][NextDiamonds]_vars

Range(list) == {list[i] : i \in 1..Len(list)}

\* The entries of a map from PKIDs to lists of entries.
EntriesOfMap(pkidsToDiamondEntryMap) ==
    UNION {Range(pkidsToDiamondEntryMap[k]) : k \in DOMAIN pkidsToDiamondEntryMap}

LiveDiamonds == {d[2] : d \in live}

WriteOnceHashes == EncodedHashes \cup {BlockHashOf(2)}
WriteOnceBlocks ==
    {MsgBitCloutBlockOf(h, 7, txns) :
        h \in WriteOnceHashes, txns \in {<<>>, <<1>>, <<1, 2>>, <<3>>}}
        \cup {[Header |-> NilEntry, Txns |-> <<>>]}

\* What a PutBlock did to a store that may hold a block under the hash.
PutBlockKind(res, bitcloutBlock) ==
    IF bitcloutBlock.Header = NilEntry THEN OpKind(res, "put")
    ELSE IF ~Has(db, BlockHashToBlockKey(bitcloutBlock.Header.Hash)) THEN OpKind(res, "put")
    ELSE IF res.err # Nil \/ res.txn # db THEN "stored block not kept"
    ELSE IF db[BlockHashToBlockKey(bitcloutBlock.Header.Hash)] = BlockToBytes(bitcloutBlock)
    THEN "same block kept"
    ELSE "first block kept"

\* The first block that a successful put gave for each hash.
LiveFirstBlock(res, bitcloutBlock) ==
    IF \/ res.err # Nil
       \/ \E first \in live : first[2] = bitcloutBlock.Header.Hash
    THEN live
    ELSE live \cup {<<"block", bitcloutBlock.Header.Hash, bitcloutBlock>>}

PutBlockOfAnyTxns ==
    \E bitcloutBlock \in WriteOnceBlocks :
        LET res == PutBlockWithTxn(db, bitcloutBlock)
        IN  /\ db' = Commit(res)
            /\ last' = PutBlockKind(res, bitcloutBlock)
            /\ live' = LiveFirstBlock(res, bitcloutBlock)
            /\ UNCHANGED open

NextWriteOnce == PutBlockOfAnyTxns

SpecWriteOnce == Init /\ [][NextWriteOnce]_vars

\* C39: a PutBlock of a block whose header hash already has a stored block
\* returns nil and changes no key, so that after any sequence of PutBlock
\* calls the store holds, for each hash, the bytes of the first block put
\* under it and nothing else, and GetBlock returns that first block.
C39_PutBlockIsWriteOnce ==
    /\ last # "stored block not kept"
    /\ DOMAIN db = {BlockHashToBlockKey(first[2]) : first \in live}
    /\ \A first \in live :
        /\ db[BlockHashToBlockKey(first[2])] = BlockToBytes(first[3])
        /\ GetBlock(first[2]) = [block |-> first[3], err |-> Nil]

\* A block was put under a hash that had another block, with two hashes
\* stored.
C39_Witness ==
    /\ last = "first block kept"
    /\ Cardinality(live) >= 2
    /\ \E first \in live : first[3].Txns # <<>>

(***************************************************************************)
(* The lists of transactions of several public keys in one store.          *)
(***************************************************************************)
\* The owners of the lists, public keys of one length, and the
\* transactions appended to them.
ListOwners == {PKIDOf(1), PKIDOf(2), PKIDOf(3)}
ListTxIDs == {BlockHashOf(1), BlockHashOf(2)}
\* The store holds at most this many keys of lists and next indices.
MaxListKeys == 6

\* The keys at which two stores differ.
ChangedKeys(before, after) ==
    {k \in DOMAIN before \cup DOMAIN after :
        \/ Has(before, k) # Has(after, k)
        \/ Has(before, k) /\ Has(after, k) /\ before[k] # after[k]}

\* What the last call for publicKey changed, and what its rewrite deleted
\* before it put anything again.
LiveCall(publicKey, changed, deleted) == {<<"call", publicKey, changed, deleted>>}

DbPutTxindexPublicKeyToTxnMappingSingleOfOwners ==
    \E publicKey \in ListOwners, txID \in ListTxIDs :
        LET res == DbPutTxindexPublicKeyToTxnMappingSingleWithTxn(db, publicKey, txID)
        IN  /\ Cardinality(DOMAIN res.txn) <= MaxListKeys
            /\ db' = Commit(res)
            /\ last' = OpKind(res, "put")
            /\ live' = LiveCall(publicKey, ChangedKeys(db, Commit(res)), {})
            /\ UNCHANGED open

DbDeleteTxindexPublicKeyToTxnMappingSingleOfOwners ==
    \E publicKey \in ListOwners, txID \in ListTxIDs :
        LET res == DbDeleteTxindexPublicKeyToTxnMappingSingleWithTxn(db, publicKey, txID)
            numMappingsInDB == Len(DbGetTxindexTxnsForPublicKeyWithTxn(db, publicKey))
            deleted == DeleteTxindexMappingsLoop(db, publicKey, 0, numMappingsInDB)
            noIndex == DbDeleteTxindexNextIndexForPublicKeyWithTxn(deleted.txn, publicKey)
        IN  /\ db' = Commit(res)
            /\ last' = OpKind(res, "delete")
            /\ live' = LiveCall(publicKey, ChangedKeys(db, Commit(res)),
                                DOMAIN db \ DOMAIN noIndex.txn)
            /\ UNCHANGED open

NextTxindexOwners ==
    \/ DbPutTxindexPublicKeyToTxnMappingSingleOfOwners
    \/ DbDeleteTxindexPublicKeyToTxnMappingSingleOfOwners

SpecTxindexOwners == Init /\ [][NextTxindexOwners]_vars

\* The list entries and the next index of a public key.
IsKeyOfOwner(publicKey, k) ==
    \/ /\ IsPrefixOf(_PrefixPublicKeyIndexToTransactionIDs \o publicKey, k)
       /\ Len(k) = 1 + Len(publicKey) + 4
    \/ k = _PrefixPublicKeyToNextIndex \o publicKey

\* C40: an append or a remove for one public key changes no list entry and
\* no next index of another public key of the same length, and the keys the
\* remove deletes before it appends the remaining transactions again are
\* keys of that public key.
C40_OtherOwnersAreUntouched ==
    \A call \in live :
        /\ \A k \in call[3] \cup call[4] : IsKeyOfOwner(call[2], k)
        /\ \A other \in ListOwners \ {call[2]} :
               \A k \in call[3] \cup call[4] : ~IsKeyOfOwner(other, k)

\* A remove for one public key rewrote its list of two transactions while
\* another public key had a list.
C40_Witness ==
    /\ last = "delete"
    /\ \E call \in live :
        /\ Cardinality(call[4]) = 3
        /\ call[3] # {}
        /\ \E other \in ListOwners \ {call[2]}, k \in DOMAIN db : IsKeyOfOwner(other, k)

====
